---------------------------- MODULE Spec2Model ----------------------------
(***************************************************************************)
(* A model of rmapi-rs: the index codec and root hash of                  *)
(* rmapi/src/objects/entry.rs, the sync path of rmapi/src/endpoints.rs    *)
(* (get_files) and rmapi/src/client.rs (list_files), and the write path   *)
(* of rmapi/src/client.rs (modify_root_index and its callers).            *)
(***************************************************************************)
EXTENDS Integers, Sequences, FiniteSets, TLC

VARIABLES
    hashIn,     \* calculate_root_hash: the pair <<entries, permuted entries>>
    hashOut,    \* calculate_root_hash: the pair of results, or NotRun
    codecIn,    \* codec: [mode, entry, line], the input of the round trip
    codecOut,   \* codec: the result of the round trip, or NotRun
    root,       \* the remote root pointer: [hash, generation]
    blobs,      \* the remote blob store: a set of [key, data]
    commits,    \* history: the root-pointer updates the remote has applied
    ops,        \* this client's write operations in flight, by slot
    fs,         \* Client.filesystem: [current_hash, docs]
    cacheFile,  \* the persisted cache file: [present, content, hash, docs]
    sync,       \* the list_files call in progress
    tree,       \* FileSystem.tree and the FileTree::build that makes it
    norm,       \* normalize_path: [path, cwd, done, out]
    auth,       \* refetch_if_unauthorized: [pc, valid, first, second, syncs, ...]
    shell       \* FileSystem::cd: [current_path, order, result]

pureVars == <<hashIn, hashOut, codecIn, codecOut, tree, norm, auth, shell>>

remoteVars == <<root, blobs, commits>>

clientVars == <<ops, fs, cacheFile, sync>>

vars ==
    <<hashIn, hashOut, codecIn, codecOut, root, blobs, commits, ops, fs, cacheFile, sync, tree, norm,
      auth, shell>>

(***************************************************************************)
(* Strings of the codec and of the hasher are sequences of characters; a  *)
(* character is a one-character string.                                    *)
(***************************************************************************)

\* Longest index-entry list handed to calculate_root_hash.
MaxEntries == 3

\* Longest line handed to IndexEntry::from_str.
MaxLineLen == 6

\* Longest string field of an entry handed to Display.
MaxFieldLen == 1

\* Largest size field of an entry handed to Display.
MaxSize == 12

\* All sequences over S of length 0..n.
SeqsUpTo(S, n) == UNION {[1..k -> S] : k \in 0..n}

\* The byte value of a character (the order String::cmp compares by).
CharCode(c) ==
    CASE c = "+" -> 43
      [] c = "0" -> 48
      [] c = "1" -> 49
      [] c = "2" -> 50
      [] c = "7" -> 55
      [] c = ":" -> 58
      [] c = "A" -> 65
      [] c = "a" -> 97
      [] c = "b" -> 98
      [] c = "g" -> 103
      [] OTHER -> 0

\* a.cmp(b) = Less or Equal for strings: lexicographic on bytes.
RECURSIVE StrLeq(_, _)
StrLeq(a, b) ==
    IF a = <<>> THEN TRUE
    ELSE IF b = <<>> THEN FALSE
    ELSE IF CharCode(Head(a)) < CharCode(Head(b)) THEN TRUE
    ELSE IF CharCode(Head(a)) > CharCode(Head(b)) THEN FALSE
    ELSE StrLeq(Tail(a), Tail(b))

(***************************************************************************)
(* hex::decode and the digest                                              *)
(***************************************************************************)

IsHexDigit(c) == c \in {"0", "1", "2", "7", "a", "b", "A"}

\* The value of a hex digit; upper and lower case decode alike.
HexVal(c) ==
    CASE c = "0" -> 0
      [] c = "1" -> 1
      [] c = "2" -> 2
      [] c = "7" -> 7
      [] c = "a" -> 10
      [] c = "A" -> 10
      [] c = "b" -> 11
      [] OTHER -> 0

\* hex::decode succeeds on an even number of hex digits.
HexValid(s) == Len(s) % 2 = 0 /\ \A i \in 1..Len(s) : IsHexDigit(s[i])

\* hex::decode: two digits per byte.
HexDecode(s) == [i \in 1..(Len(s) \div 2) |-> 16 * HexVal(s[2 * i - 1]) + HexVal(s[2 * i])]

\* SHA-256 followed by hex::encode, as a collision-free function of the bytes fed.
Sha256Hex(bytes) == [ok |-> TRUE, tag |-> "sha256", fed |-> bytes]

HashErr(id) == [ok |-> FALSE, tag |-> "invalid hex", fed |-> <<>>]

\* Vec::sort_by(|a, b| a.id.cmp(&b.id)): stable, so each entry goes behind the
\* entries already placed whose id is less than or equal to its own.
RECURSIVE InsertById(_, _)
InsertById(sorted, e) ==
    IF sorted = <<>> THEN <<e>>
    ELSE IF StrLeq(Head(sorted).id, e.id) THEN <<Head(sorted)>> \o InsertById(Tail(sorted), e)
    ELSE <<e>> \o sorted

RECURSIVE SortById(_)
SortById(entries) ==
    IF entries = <<>> THEN <<>>
    ELSE InsertById(SortById(SubSeq(entries, 1, Len(entries) - 1)), entries[Len(entries)])

\* The hasher loop: decode each hash in order, stop at the first invalid one.
RECURSIVE FeedAll(_, _)
FeedAll(es, acc) ==
    IF es = <<>> THEN Sha256Hex(acc)
    ELSE IF ~HexValid(Head(es).hash) THEN HashErr(Head(es).id)
    ELSE FeedAll(Tail(es), acc \o HexDecode(Head(es).hash))

\* A hasher that forgets to sort.
calculate_root_hash_unsorted(entries) == FeedAll(entries, <<>>)

\* IndexEntry::calculate_root_hash
calculate_root_hash(entries) == FeedAll(SortById(entries), <<>>)

(***************************************************************************)
(* Display and FromStr of IndexEntry                                       *)
(***************************************************************************)

Digit(n) ==
    CASE n = 0 -> "0" [] n = 1 -> "1" [] n = 2 -> "2" [] n = 3 -> "3" [] n = 4 -> "4"
      [] n = 5 -> "5" [] n = 6 -> "6" [] n = 7 -> "7" [] n = 8 -> "8" [] OTHER -> "9"

IsDigit(c) == c \in {"0", "1", "2", "3", "4", "5", "6", "7", "8", "9"}

DigitVal(c) ==
    CASE c = "0" -> 0 [] c = "1" -> 1 [] c = "2" -> 2 [] c = "3" -> 3 [] c = "4" -> 4
      [] c = "5" -> 5 [] c = "6" -> 6 [] c = "7" -> 7 [] c = "8" -> 8 [] OTHER -> 9

\* u64's Display: decimal, no sign, no leading zeros.
RECURSIVE U64ToString(_)
U64ToString(n) ==
    IF n < 10 THEN <<Digit(n)>> ELSE U64ToString(n \div 10) \o <<Digit(n % 10)>>

RECURSIVE DigitsValue(_, _)
DigitsValue(s, acc) ==
    IF s = <<>> THEN acc ELSE DigitsValue(Tail(s), 10 * acc + DigitVal(Head(s)))

\* str::parse::<u64>: an optional '+', then one or more decimal digits. (The
\* overflow error needs twenty digits, more than MaxLineLen allows.)
U64Digits(s) == IF s # <<>> /\ Head(s) = "+" THEN Tail(s) ELSE s

U64Parses(s) == U64Digits(s) # <<>> /\ \A i \in 1..Len(U64Digits(s)) : IsDigit(U64Digits(s)[i])

U64Parse(s) == DigitsValue(U64Digits(s), 0)

\* str::split(':'): the fields between the separators, empty ones kept.
RECURSIVE SplitColon(_, _, _)
SplitColon(s, cur, acc) ==
    IF s = <<>> THEN Append(acc, cur)
    ELSE IF Head(s) = ":" THEN SplitColon(Tail(s), <<>>, Append(acc, cur))
    ELSE SplitColon(Tail(s), Append(cur, Head(s)), acc)

Split(s) == SplitColon(s, <<>>, <<>>)

\* Display that drops the count field's separator.
to_string_no_count_sep(e) ==
    e.hash \o <<":">> \o e.type_id \o <<":">> \o e.id \o <<":">> \o e.unknown_count
           \o U64ToString(e.size)

\* impl Display for IndexEntry
to_string(e) ==
    e.hash \o <<":">> \o e.type_id \o <<":">> \o e.id \o <<":">> \o e.unknown_count
           \o <<":">> \o U64ToString(e.size)

NoEntry == [hash |-> <<>>, type_id |-> <<>>, id |-> <<>>, unknown_count |-> <<>>, size |-> 0]

\* impl FromStr for IndexEntry: [ok, entry]
from_str(s) ==
    LET parts == Split(s) IN
    IF Len(parts) < 5 THEN [ok |-> FALSE, tag |-> "format", entry |-> NoEntry]
    ELSE IF ~U64Parses(parts[5]) THEN [ok |-> FALSE, tag |-> "size", entry |-> NoEntry]
    ELSE [ok |-> TRUE, tag |-> "ok",
          entry |-> [hash |-> parts[1], type_id |-> parts[2], id |-> parts[3],
                     unknown_count |-> parts[4], size |-> U64Parse(parts[5])]]

(***************************************************************************)
(* The remote service and the values it stores.  A blob is text (a list   *)
(* of lines), JSON (a metadata object) or other bytes.  A content hash is *)
(* the SHA-256 of a blob, taken as a collision-free function of the       *)
(* blob, or a literal string that is the hash of nothing stored.         *)
(***************************************************************************)

\* Write operations this client has in flight at once.
MaxOps == 2

\* Root-pointer updates made by other writers.
MaxExternal == 1

Ops == 1..MaxOps

\* Ids are <<tag, number>>: "d", "n" and "x" tag canonical UUID strings, "D"
\* the same UUID written in upper case, "bad" a string that is no UUID.
EmptyId == <<"", 0>>

NilUuid == <<"nil", 0>>

NoMeta ==
    [visibleName |-> "", type |-> "", parent |-> EmptyId, lastModified |-> "", version |-> 0,
     versioned |-> FALSE, pinned |-> FALSE, deleted |-> FALSE, metadatamodified |-> FALSE,
     extra |-> ""]

NoBlob == [kind |-> "none", lines |-> <<>>, meta |-> NoMeta, raw |-> 0]

TextBlob(lines) == [kind |-> "text", lines |-> lines, meta |-> NoMeta, raw |-> 0]

JsonBlob(meta) == [kind |-> "json", lines |-> <<>>, meta |-> meta, raw |-> 0]

RawBlob(n) == [kind |-> "raw", lines |-> <<>>, meta |-> NoMeta, raw |-> n]

\* A string that is the hash of no blob.
Lit(s) == [lit |-> s, of |-> NoBlob]

\* Client::compute_hash
compute_hash(data) == [lit |-> "sha256", of |-> data]

\* data.len(): the length of a blob's bytes, up to what the model tells apart.
ByteLen(b) ==
    CASE b.kind = "text" -> Len(b.lines)
      [] b.kind = "json" -> b.meta.version + 2
      [] OTHER -> b.raw

\* One line of an index or of a schema, as split(':') sees it: nf fields, the
\* third being an id followed, in a schema, by '.' and a suffix.
Line(hash, type, id, suffix, count, size) ==
    [nf |-> 5, hash |-> hash, type |-> type, id |-> id, suffix |-> suffix,
     count |-> count, size |-> size]

\* The first line of every index and schema: the schema version "3".
VersionLine ==
    [nf |-> 1, hash |-> Lit("3"), type |-> "", id |-> EmptyId, suffix |-> "",
     count |-> "", size |-> 0]

\* line.contains(".metadata")
ContainsMetadata(line) == line.suffix = "metadata"

Stored(h) == \E b \in blobs : b.key = h

\* GET /sync/v3/files/{hash}
Fetch(h) == (CHOOSE b \in blobs : b.key = h).data

\* PUT /sync/v3/files/{hash}
Store(bs, h, data) == {b \in bs : b.key # h} \cup {[key |-> h, data |-> data]}

\* String::from_utf8 and lines(): JSON text is one line, other bytes are not text.
TextOf(data) ==
    CASE data.kind = "text" -> [ok |-> TRUE, lines |-> data.lines]
      [] data.kind = "json" -> [ok |-> TRUE, lines |-> <<[VersionLine EXCEPT !.hash = Lit("{")]>>]
      [] OTHER -> [ok |-> FALSE, lines |-> <<>>]

\* Uuid::parse_str(id).unwrap_or(Uuid::nil()), printed back by to_string().
UuidParse(id) ==
    CASE id[1] \in {"d", "n", "x"} -> id
      [] id[1] = "D" -> <<"d", id[2]>>
      [] OTHER -> NilUuid

\* versioned: the JSON has a key "version" with a number (other devices write
\* metadata without one: V4Metadata's default then reads 0).
Meta(name, type, parent, version, pinned, deleted) ==
    [visibleName |-> name, type |-> type, parent |-> parent, lastModified |-> "t0",
     version |-> version, versioned |-> TRUE, pinned |-> pinned, deleted |-> deleted,
     metadatamodified |-> FALSE, extra |-> "tags"]

\* A document's schema as another device wrote it: content and metadata.
SchemaOf(id, meta, content) ==
    TextBlob(<<VersionLine,
               Line(compute_hash(RawBlob(content)), "0", id, "content", "0", content),
               Line(compute_hash(JsonBlob(meta)), "0", id, "metadata", "0", ByteLen(JsonBlob(meta)))>>)

EntryOf(id, type, schema) == Line(compute_hash(schema), type, id, "", "2", ByteLen(schema))

Keyed(data) == [key |-> compute_hash(data), data |-> data]

DocBlobs(id, meta, content) ==
    {Keyed(RawBlob(content)), Keyed(JsonBlob(meta)), Keyed(SchemaOf(id, meta, content))}

\* A Document whose bookmark is never set.
DocumentOfUnpinned(entry, meta) ==
    [id |-> UuidParse(entry.id),
     version |-> meta.version,
     doc_type |-> IF meta.type = "CollectionType" THEN "Collection" ELSE "Document",
     display_name |-> IF meta.visibleName = "" THEN "Unknown" ELSE meta.visibleName,
     bookmarked |-> FALSE,
     parent |-> meta.parent,
     hash |-> entry.hash]

\* The Document get_files builds from an index entry and its decoded metadata.
DocumentOf(entry, meta) ==
    [id |-> UuidParse(entry.id),
     version |-> meta.version,
     doc_type |-> IF meta.type = "CollectionType" THEN "Collection" ELSE "Document",
     display_name |-> IF meta.visibleName = "" THEN "Unknown" ELSE meta.visibleName,
     bookmarked |-> meta.pinned,
     parent |-> meta.parent,
     hash |-> entry.hash]

\* What mv's destination path resolves to in the cached tree: the node found,
\* or, when there is none, the node of the parent path and the file name.
NoDest == [found |-> FALSE, node |-> EmptyId, name |-> ""]

IdleOp ==
    [kind |-> "none", pc |-> "idle", doc_id |-> EmptyId, doc_hash |-> Lit(""),
     new_name |-> "", new_parent |-> EmptyId, dest |-> NoDest, doc_schema_lines |-> <<>>, metadata_hash |-> Lit(""),
     metadata_line_idx |-> 0, new_metadata |-> NoBlob, new_doc_schema |-> NoBlob,
     blobs_to_upload |-> <<>>, upload_i |-> 0, current_root_hash |-> Lit(""),
     current_generation |-> 0, root_lines |-> <<>>, attempts |-> 0, err |-> "", at |-> "",
     sent |-> <<>>]

IdleSync ==
    [pc |-> "idle", remote_hash |-> Lit(""), root_hash |-> Lit(""), entries |-> <<>>,
     results |-> <<>>, fetches |-> 0, docs |-> <<>>, hit |-> FALSE, err |-> "", calls |-> 0,
     finished |-> <<>>]

EmptyFs == [current_hash |-> Lit(""), docs |-> <<>>]

\* content is "json" for a file that decodes as CacheData, "garbage" for one
\* that does not, "unreadable" for one read_to_string fails on.
NoCacheFile == [present |-> FALSE, content |-> "", hash |-> Lit(""), docs |-> <<>>]

\* FileTree::new: the root node alone.  under maps every placed node's id to
\* the node it is a child of ("/" the root, "trash" the trash node).
FileTreeNew ==
    [pc |-> "new", documents |-> <<>>, nodes |-> {}, remaining |-> {}, placed |-> {},
     trash |-> FALSE, progress |-> FALSE, current |-> {}]

\* A path as Path sees it: whether it starts with '/', and the pieces between
\* its '/' characters.
RootPath == [abs |-> TRUE, parts |-> <<>>]

\* refetch_if_unauthorized has not been called.  valid: the remote accepts
\* the client's user token; file: the token file holds the client's token.
AuthIdle ==
    [pc |-> "idle", valid |-> TRUE, file |-> TRUE, first |-> "", second |-> "", err |-> "",
     syncs |-> 0, refreshes |-> 0, writes |-> 0, base |-> 0]

\* FileSystem::new: the current path is "/".  order tells how the children
\* of a node come out of its HashMap, which no call of cd changes.
ShellIdle == [current_path |-> <<"/">>, order |-> FALSE, result |-> ""]

\* normalize_path has not been called.
NormIdle == [path |-> RootPath, cwd |-> RootPath, done |-> FALSE, out |-> <<>>]

SystemIdle ==
    /\ tree = FileTreeNew
    /\ norm = NormIdle
    /\ auth = AuthIdle
    /\ shell = ShellIdle
    /\ root = [hash |-> Lit(""), generation |-> 0]
    /\ blobs = {}
    /\ commits = <<>>
    /\ ops = [o \in Ops |-> IdleOp]
    /\ fs = EmptyFs
    /\ cacheFile = NoCacheFile
    /\ sync = IdleSync

(***************************************************************************)
(* The hasher applied to a list and to a permutation of it.               *)
(***************************************************************************)

\* The hash strings tried: two distinct bytes, the same byte in upper and
\* lower case, and a string that is not hex.
HashStrings == {<<"1", "1">>, <<"a", "2">>, <<"A", "2">>, <<"g", "1">>}

\* The ids tried: "ab" sorts before "b".
IdStrings == {<<"b">>, <<"a", "b">>}

HashEntries ==
    [hash : HashStrings, type_id : {<<"1">>}, id : IdStrings,
     unknown_count : {<<"0">>}, size : {100}]

Injective(f) == \A i, j \in DOMAIN f : f[i] = f[j] => i = j

PermsOf(n) == {p \in [1..n -> 1..n] : Injective(p)}

Permuted(es, p) == [i \in 1..Len(es) |-> es[p[i]]]

HashNotRun == [done |-> FALSE, r1 |-> HashErr(<<>>), r2 |-> HashErr(<<>>)]

CodecNotRun == [done |-> FALSE, text |-> <<>>, parsed |-> from_str(<<>>)]

CodecNoInput == [mode |-> "none", entry |-> NoEntry, line |-> <<>>]

HashIdle == hashIn = <<<<>>, <<>>>> /\ hashOut = HashNotRun

CodecIdle == codecIn = CodecNoInput /\ codecOut = CodecNotRun

InitHash ==
    /\ \E es \in SeqsUpTo(HashEntries, MaxEntries) :
          \E p \in PermsOf(Len(es)) : hashIn = <<es, Permuted(es, p)>>
    /\ hashOut = HashNotRun
    /\ CodecIdle
    /\ SystemIdle

\* Both lists are hashed.
HashBoth ==
    /\ ~hashOut.done
    /\ hashOut' = [done |-> TRUE, r1 |-> calculate_root_hash(hashIn[1]),
                   r2 |-> calculate_root_hash(hashIn[2])]
    /\ UNCHANGED <<hashIn, codecIn, codecOut, tree, norm, auth, shell, remoteVars, clientVars>>

NextHash == HashBoth

SpecHash == InitHash /\ [][NextHash]_vars

(***************************************************************************)
(* The codec round trips: an entry formatted and parsed back, and a line  *)
(* parsed and formatted back.                                              *)
(***************************************************************************)

FieldChars == {"a", ":"}

LineChars == {"a", ":", "0", "7", "+"}

CodecEntries ==
    [hash : SeqsUpTo(FieldChars, MaxFieldLen), type_id : SeqsUpTo(FieldChars, MaxFieldLen),
     id : SeqsUpTo(FieldChars, MaxFieldLen), unknown_count : SeqsUpTo(FieldChars, MaxFieldLen),
     size : 0..MaxSize]

InitCodec ==
    /\ \/ \E e \in CodecEntries : codecIn = [mode |-> "entry", entry |-> e, line |-> <<>>]
       \/ \E l \in SeqsUpTo(LineChars, MaxLineLen) :
             codecIn = [mode |-> "line", entry |-> NoEntry, line |-> l]
    /\ codecOut = CodecNotRun
    /\ HashIdle
    /\ SystemIdle

\* entry.to_string().parse::<IndexEntry>()
RoundTripEntry ==
    /\ codecIn.mode = "entry"
    /\ ~codecOut.done
    /\ codecOut' = [done |-> TRUE, text |-> to_string(codecIn.entry),
                    parsed |-> from_str(to_string(codecIn.entry))]
    /\ UNCHANGED <<hashIn, hashOut, codecIn, tree, norm, auth, shell, remoteVars, clientVars>>

\* IndexEntry::from_str(line)?.to_string()
RoundTripLine ==
    /\ codecIn.mode = "line"
    /\ ~codecOut.done
    /\ LET r == from_str(codecIn.line) IN
         codecOut' = [done |-> TRUE, parsed |-> r,
                      text |-> IF r.ok THEN to_string(r.entry) ELSE <<>>]
    /\ UNCHANGED <<hashIn, hashOut, codecIn, tree, norm, auth, shell, remoteVars, clientVars>>

NextCodec == RoundTripEntry \/ RoundTripLine

SpecCodec == InitCodec /\ [][NextCodec]_vars

(***************************************************************************)
(* The write path: rename_entry, delete_entry and upload_document, each   *)
(* ending in modify_root_index.  One action per network call, with the    *)
(* local computation that follows it.                                      *)
(***************************************************************************)

D1 == <<"d", 1>>

D2 == <<"d", 2>>

X1 == <<"x", 1>>

MetaD1 == Meta("a", "DocumentType", EmptyId, 1, FALSE, FALSE)

MetaD2 == Meta("b", "CollectionType", EmptyId, 1, TRUE, FALSE)

MetaX1 == Meta("x", "DocumentType", EmptyId, 1, FALSE, FALSE)

EntryD1 == EntryOf(D1, "DocumentType", SchemaOf(D1, MetaD1, 1))

EntryD2 == EntryOf(D2, "CollectionType", SchemaOf(D2, MetaD2, 1))

WriteRootBlob == TextBlob(<<VersionLine, EntryD1, EntryD2>>)

\* The names rename_entry is given.
NewNames == {"r"}

InitWrite ==
    /\ root = [hash |-> compute_hash(WriteRootBlob), generation |-> 1]
    /\ blobs = DocBlobs(D1, MetaD1, 1) \cup DocBlobs(D2, MetaD2, 1) \cup {Keyed(WriteRootBlob)}
    /\ commits = <<>>
    /\ ops = [o \in Ops |-> IdleOp]
    /\ fs = [current_hash |-> compute_hash(WriteRootBlob),
             docs |-> <<DocumentOf(EntryD1, MetaD1), DocumentOf(EntryD2, MetaD2)>>]
    /\ cacheFile = [present |-> TRUE, content |-> "json", hash |-> fs.current_hash, docs |-> fs.docs]
    /\ sync = IdleSync
    /\ tree = FileTreeNew
    /\ norm = NormIdle
    /\ auth = AuthIdle
    /\ shell = ShellIdle
    /\ HashIdle
    /\ CodecIdle

\* list_files borrows the client mutably: no write operation runs beside it.
\* Slots are taken in order.
CanStart(o) ==
    /\ ops[o].pc = "idle"
    /\ sync.pc \in {"idle", "done", "failed"}
    /\ \A q \in Ops : q < o => ops[q].pc # "idle"

SetOp(o, rec) == ops' = [ops EXCEPT ![o] = rec]

\* The operation has returned: its locals are dropped.  What it was called
\* with, what it read of the root pointer and what it committed are kept for
\* the properties below.
Returned(op) ==
    [IdleOp EXCEPT !.kind = op.kind, !.doc_id = op.doc_id, !.doc_hash = op.doc_hash,
                   !.new_name = op.new_name, !.new_doc_schema = op.new_doc_schema,
                   !.new_parent = op.new_parent, !.dest = op.dest,
                   !.upload_i = op.upload_i, !.current_root_hash = op.current_root_hash,
                   !.current_generation = op.current_generation, !.attempts = op.attempts,
                   !.sent = op.sent]

\* The operation returns Err; `at` keeps the call it returned from.
FailOp(o, err) ==
    SetOp(o, [Returned(ops[o]) EXCEPT !.pc = "failed", !.err = err, !.at = ops[o].pc])

\* rename_entry is called with a document of the cached list and a new name.
StartRename(o) ==
    /\ CanStart(o)
    /\ \E i \in 1..Len(fs.docs) : \E name \in NewNames :
          SetOp(o, [IdleOp EXCEPT !.kind = "rename", !.pc = "r_fetch_schema",
                                  !.doc_id = fs.docs[i].id, !.doc_hash = fs.docs[i].hash,
                                  !.new_name = name])
    /\ UNCHANGED <<pureVars, remoteVars, fs, cacheFile, sync>>

\* delete_entry is called with a document of the cached list.
StartDelete(o) ==
    /\ CanStart(o)
    /\ \E i \in 1..Len(fs.docs) :
          SetOp(o, [IdleOp EXCEPT !.kind = "delete", !.pc = "m_get_root",
                                  !.doc_id = fs.docs[i].id, !.doc_hash = fs.docs[i].hash])
    /\ UNCHANGED <<pureVars, remoteVars, fs, cacheFile, sync>>

\* The directories of the cached list, by id, and the root ("").
TargetDirs ==
    {EmptyId} \cup {fs.docs[i].id : i \in {j \in 1..Len(fs.docs) : fs.docs[j].doc_type = "Collection"}}

\* The id Uuid::new_v4() draws for the operation in slot o.
NewDocId(o) == <<"n", o>>

\* The four-entry schema of a new document and the five blobs to upload, in
\* upload order: content, pagedata, file, metadata, schema.
NewContent(o) == RawBlob(10 + o)

NewPagedata == RawBlob(0)

NewFile == RawBlob(7)

NewMetadata(name, parent) ==
    JsonBlob([visibleName |-> name, type |-> "DocumentType", parent |-> parent,
              lastModified |-> "now", version |-> 1, pinned |-> FALSE, deleted |-> FALSE,
              versioned |-> TRUE, metadatamodified |-> FALSE, extra |-> ""])

NewSchema(o, name, parent, ext) ==
    TextBlob(<<VersionLine,
               Line(compute_hash(NewContent(o)), "0", NewDocId(o), "content", "0", ByteLen(NewContent(o))),
               Line(compute_hash(NewPagedata), "0", NewDocId(o), "pagedata", "0", ByteLen(NewPagedata)),
               Line(compute_hash(NewMetadata(name, parent)), "0", NewDocId(o), "metadata", "0",
                    ByteLen(NewMetadata(name, parent))),
               Line(compute_hash(NewFile), "0", NewDocId(o), ext, "0", ByteLen(NewFile))>>)

\* upload_document up to its first upload: the checks of the local file and of
\* the target directory, then the composition of the blobs.
StartCreate(o) ==
    /\ CanStart(o)
    /\ \E ext \in {"pdf", "txt"} : \E parent \in TargetDirs :
          IF ext = "txt"
          THEN SetOp(o, [IdleOp EXCEPT !.kind = "create", !.pc = "failed", !.err = "unsupported",
                                        !.at = "c_check"])
          ELSE SetOp(o, [IdleOp EXCEPT
                  !.kind = "create", !.pc = "c_upload", !.doc_id = NewDocId(o),
                  !.new_name = "n", !.upload_i = 1,
                  !.new_doc_schema = NewSchema(o, "n", parent, ext),
                  !.blobs_to_upload = <<NewContent(o), NewPagedata, NewFile,
                                        NewMetadata("n", parent), NewSchema(o, "n", parent, ext)>>])
    /\ UNCHANGED <<pureVars, remoteVars, fs, cacheFile, sync>>

\* upload_document's loop over blobs_to_upload: one upload_blob that succeeds.
UploadNext(o) ==
    /\ ops[o].pc = "c_upload"
    /\ LET b == ops[o].blobs_to_upload[ops[o].upload_i] IN
         blobs' = Store(blobs, compute_hash(b), b)
    /\ SetOp(o, [ops[o] EXCEPT
            !.upload_i = @ + 1,
            !.pc = IF ops[o].upload_i = Len(ops[o].blobs_to_upload) THEN "m_get_root" ELSE "c_upload"])
    /\ UNCHANGED <<pureVars, root, commits, fs, cacheFile, sync>>

\* The last line of the schema that contains ".metadata", or 0.
LastMetadataLine(lines) ==
    IF \E i \in 1..Len(lines) : ContainsMetadata(lines[i])
    THEN CHOOSE i \in 1..Len(lines) :
            ContainsMetadata(lines[i]) /\ \A j \in (i + 1)..Len(lines) : ~ContainsMetadata(lines[j])
    ELSE 0

\* The first line of the schema that contains ".metadata", or 0.
FirstMetadataLine(lines) ==
    IF \E i \in 1..Len(lines) : ContainsMetadata(lines[i])
    THEN CHOOSE i \in 1..Len(lines) :
            ContainsMetadata(lines[i]) /\ \A j \in 1..(i - 1) : ~ContainsMetadata(lines[j])
    ELSE 0

\* rename_entry: fetch_blob(doc.hash), then the search for the metadata line.
FetchSchema(o) ==
    /\ ops[o].pc = "r_fetch_schema"
    /\ IF ~Stored(ops[o].doc_hash) THEN FailOp(o, "status")
       ELSE LET text == TextOf(Fetch(ops[o].doc_hash))
                idx == FirstMetadataLine(text.lines)
            IN IF ~text.ok THEN FailOp(o, "utf8")
               ELSE IF idx = 0 THEN FailOp(o, "no metadata")
               ELSE SetOp(o, [ops[o] EXCEPT !.pc = "r_fetch_meta",
                                            !.doc_schema_lines = text.lines,
                                            !.metadata_hash = text.lines[idx].hash,
                                            !.metadata_line_idx = idx])
    /\ UNCHANGED <<pureVars, remoteVars, fs, cacheFile, sync>>

\* A re-encoding through V4Metadata, which has no field for other keys.
RenamedMetadataTyped(meta, name) ==
    [meta EXCEPT !.visibleName = name, !.version = IF meta.versioned THEN @ + 1 ELSE @,
                 !.lastModified = "now", !.metadatamodified = TRUE, !.extra = ""]

\* The metadata rename_entry writes back: name, version + 1 when "version" is
\* a number, modification time, and the key "metadatamodified".
RenamedMetadata(meta, name) ==
    [meta EXCEPT !.visibleName = name, !.version = IF meta.versioned THEN @ + 1 ELSE @,
                 !.lastModified = "now", !.metadatamodified = TRUE]

\* The metadata a move writes back: the parent, the name when one is given,
\* version + 1 and the modification time.
MovedMetadata(meta, parent, name) ==
    [meta EXCEPT !.parent = parent, !.visibleName = IF name = "" THEN @ ELSE name,
                 !.version = @ + 1, !.lastModified = "now"]

\* The metadata the operation writes back.
UpdatedMetadata(op, meta) ==
    IF op.kind = "move" THEN MovedMetadata(meta, op.new_parent, op.new_name)
    ELSE RenamedMetadata(meta, op.new_name)

\* rename_entry: fetch_blob(metadata_hash) and the JSON decode and update.
FetchMetadata(o) ==
    /\ ops[o].pc = "r_fetch_meta"
    /\ IF ~Stored(ops[o].metadata_hash) THEN FailOp(o, "status")
       ELSE LET data == Fetch(ops[o].metadata_hash) IN
            IF data.kind # "json" THEN FailOp(o, "json")
            ELSE SetOp(o, [ops[o] EXCEPT
                    !.pc = "r_upload_meta",
                    !.new_metadata = JsonBlob(UpdatedMetadata(ops[o], data.meta))])
    /\ UNCHANGED <<pureVars, remoteVars, fs, cacheFile, sync>>

\* The schema line rename_entry writes for the new metadata blob.
NewMetaLine(old, metadata) ==
    Line(compute_hash(metadata), "0", old.id, old.suffix, "0", ByteLen(metadata))

\* rename_entry: upload_blob of the new metadata, then the new schema lines
\* (parts[2] of a line of fewer than three fields panics).
UploadMetadata(o) ==
    /\ ops[o].pc = "r_upload_meta"
    /\ blobs' = Store(blobs, compute_hash(ops[o].new_metadata), ops[o].new_metadata)
    /\ LET idx == ops[o].metadata_line_idx
           old == ops[o].doc_schema_lines[idx]
           lines == [ops[o].doc_schema_lines EXCEPT ![idx] = NewMetaLine(old, ops[o].new_metadata)]
       IN IF old.nf < 3 THEN FailOp(o, "panic")
          ELSE SetOp(o, [ops[o] EXCEPT !.pc = "r_upload_schema",
                                       !.doc_schema_lines = lines,
                                       !.new_doc_schema = TextBlob(lines)])
    /\ UNCHANGED <<pureVars, root, commits, fs, cacheFile, sync>>

\* An upload of the new schema under the hash of the schema it replaces.
UploadSchemaUnderOldHash(o) ==
    /\ ops[o].pc = "r_upload_schema"
    /\ blobs' = Store(blobs, ops[o].doc_hash, ops[o].new_doc_schema)
    /\ SetOp(o, [ops[o] EXCEPT !.pc = "m_get_root"])
    /\ UNCHANGED <<pureVars, root, commits, fs, cacheFile, sync>>

\* rename_entry: upload_blob of the new schema.
UploadSchema(o) ==
    /\ ops[o].pc = "r_upload_schema"
    /\ blobs' = Store(blobs, compute_hash(ops[o].new_doc_schema), ops[o].new_doc_schema)
    /\ SetOp(o, [ops[o] EXCEPT !.pc = "m_get_root"])
    /\ UNCHANGED <<pureVars, root, commits, fs, cacheFile, sync>>

\* A read of the root pointer that takes the hash from the local cache.
GetRootCachedHash(o) ==
    /\ ops[o].pc = "m_get_root"
    /\ SetOp(o, [ops[o] EXCEPT !.pc = "m_fetch_root",
                               !.current_root_hash = fs.current_hash,
                               !.current_generation = root.generation,
                               !.attempts = @ + 1])
    /\ UNCHANGED <<pureVars, remoteVars, fs, cacheFile, sync>>

\* modify_root_index: GET of the root pointer.
GetRoot(o) ==
    /\ ops[o].pc = "m_get_root"
    /\ SetOp(o, [ops[o] EXCEPT !.pc = "m_fetch_root",
                               !.current_root_hash = root.hash,
                               !.current_generation = root.generation,
                               !.attempts = @ + 1])
    /\ UNCHANGED <<pureVars, remoteVars, fs, cacheFile, sync>>

\* The index of the first line after the version line whose third field is the
\* document id, or 0.
FindEntry(lines, id) ==
    LET hit(i) == lines[i].nf >= 3 /\ lines[i].id = id /\ lines[i].suffix = "" IN
    IF \E i \in 2..Len(lines) : hit(i)
    THEN CHOOSE i \in 2..Len(lines) : hit(i) /\ \A j \in 2..(i - 1) : ~hit(j)
    ELSE 0

RemoveAt(lines, i) == SubSeq(lines, 1, i - 1) \o SubSeq(lines, i + 1, Len(lines))

\* A closure that puts the new entry in the place of the last line.
CreateModifierOverwrite(op, lines) ==
    [ok |-> TRUE, err |-> "",
     lines |-> [lines EXCEPT ![Len(lines)] =
                   Line(compute_hash(op.new_doc_schema), "DocumentType", op.doc_id, "",
                        "4", ByteLen(op.new_doc_schema))]]

\* The closure upload_document passes: push the new entry.
CreateModifier(op, lines) ==
    [ok |-> TRUE, err |-> "",
     lines |-> Append(lines, Line(compute_hash(op.new_doc_schema), "DocumentType", op.doc_id, "",
                                  "4", ByteLen(op.new_doc_schema)))]

\* A closure that removes the entry and every line after it.
DeleteModifierTruncate(op, lines) ==
    LET idx == FindEntry(lines, op.doc_id) IN
    IF idx = 0 THEN [ok |-> FALSE, err |-> "not in root index", lines |-> lines]
    ELSE [ok |-> TRUE, err |-> "", lines |-> SubSeq(lines, 1, idx - 1)]

\* A closure that leaves the index as it is when the entry is missing.
DeleteModifierLenient(op, lines) ==
    LET idx == FindEntry(lines, op.doc_id) IN
    IF idx = 0 THEN [ok |-> TRUE, err |-> "", lines |-> lines]
    ELSE [ok |-> TRUE, err |-> "", lines |-> RemoveAt(lines, idx)]

\* The closure delete_entry passes: remove the entry, or fail.
DeleteModifier(op, lines) ==
    LET idx == FindEntry(lines, op.doc_id) IN
    IF idx = 0 THEN [ok |-> FALSE, err |-> "not in root index", lines |-> lines]
    ELSE [ok |-> TRUE, err |-> "", lines |-> RemoveAt(lines, idx)]

\* A closure that writes the new entry with the type tag of a document.
RenameModifierRetyped(op, lines) ==
    LET idx == FindEntry(lines, op.doc_id) IN
    IF idx = 0 THEN [ok |-> FALSE, err |-> "not in root index", lines |-> lines]
    ELSE IF lines[idx].nf < 4 THEN [ok |-> FALSE, err |-> "panic", lines |-> lines]
    ELSE [ok |-> TRUE, err |-> "",
          lines |-> [lines EXCEPT ![idx] =
                        Line(compute_hash(op.new_doc_schema), "DocumentType", lines[idx].id, "",
                             lines[idx].count, ByteLen(op.new_doc_schema))]]

\* The closure rename_entry passes: replace the entry's hash and size
\* (r_parts[3] of a line of three fields panics).
RenameModifier(op, lines) ==
    LET idx == FindEntry(lines, op.doc_id) IN
    IF idx = 0 THEN [ok |-> FALSE, err |-> "not in root index", lines |-> lines]
    ELSE IF lines[idx].nf < 4 THEN [ok |-> FALSE, err |-> "panic", lines |-> lines]
    ELSE [ok |-> TRUE, err |-> "",
          lines |-> [lines EXCEPT ![idx] =
                        Line(compute_hash(op.new_doc_schema), lines[idx].type, lines[idx].id, "",
                             lines[idx].count, ByteLen(op.new_doc_schema))]]

Modifier(op, lines) ==
    CASE op.kind = "create" -> CreateModifier(op, lines)
      [] op.kind = "delete" -> DeleteModifier(op, lines)
      [] OTHER -> RenameModifier(op, lines)

\* modify_root_index: fetch_blob of the root index, then the modifier.
FetchRootBlob(o) ==
    /\ ops[o].pc = "m_fetch_root"
    /\ IF ~Stored(ops[o].current_root_hash) THEN FailOp(o, "status")
       ELSE LET text == TextOf(Fetch(ops[o].current_root_hash))
                m == Modifier(ops[o], text.lines)
            IN IF ~text.ok THEN FailOp(o, "utf8")
               ELSE IF ~m.ok THEN FailOp(o, m.err)
               ELSE SetOp(o, [ops[o] EXCEPT !.pc = "m_upload_root", !.root_lines = m.lines])
    /\ UNCHANGED <<pureVars, remoteVars, fs, cacheFile, sync>>

\* The blob modify_root_index uploads and the hash it uploads it under.
NewRootBlob(o) == TextBlob(ops[o].root_lines)

NewRootHash(o) == compute_hash(NewRootBlob(o))

\* An upload of the root index that stores nothing.
UploadRootBlobLost(o) ==
    /\ ops[o].pc = "m_upload_root"
    /\ SetOp(o, [ops[o] EXCEPT !.pc = "m_update_root"])
    /\ UNCHANGED <<pureVars, root, blobs, commits, fs, cacheFile, sync>>

\* An upload of the root index that moves the root pointer as well.
UploadRootBlobAndPointer(o) ==
    /\ ops[o].pc = "m_upload_root"
    /\ blobs' = Store(blobs, NewRootHash(o), NewRootBlob(o))
    /\ root' = [hash |-> NewRootHash(o), generation |-> root.generation]
    /\ SetOp(o, [ops[o] EXCEPT !.pc = "m_update_root"])
    /\ UNCHANGED <<pureVars, commits, fs, cacheFile, sync>>

\* modify_root_index: upload_blob of the new root index.
UploadRootBlob(o) ==
    /\ ops[o].pc = "m_upload_root"
    /\ blobs' = Store(blobs, NewRootHash(o), NewRootBlob(o))
    /\ SetOp(o, [ops[o] EXCEPT !.pc = "m_update_root"])
    /\ UNCHANGED <<pureVars, root, commits, fs, cacheFile, sync>>

\* A commit that sends the generation after the one read.
CommitGenerationNext(o) == ops[o].current_generation + 1

\* A commit that sends the generation the remote holds now.
CommitGenerationLatest(o) == root.generation

\* The generation modify_root_index sends to update_root.
CommitGeneration(o) == ops[o].current_generation

\* The remote applies a root update: new hash, next generation.
Applied(by, target, hash) ==
    /\ root' = [hash |-> hash, generation |-> root.generation + 1]
    /\ commits' = Append(commits, [by |-> by, target |-> target, generation |-> root.generation,
                                   old |-> root.hash, new |-> hash])

\* update_root: the PUT reaches the remote, which applies it when the
\* generation sent is the current one and answers an error status otherwise
\* (error_for_status turns it into Err; "conflict" names the cause).
UpdateRoot(o) ==
    /\ ops[o].pc = "m_update_root"
    /\ IF CommitGeneration(o) = root.generation
       THEN /\ Applied(o, ops[o].doc_id, NewRootHash(o))
            /\ SetOp(o, [Returned(ops[o]) EXCEPT !.pc = "done", !.sent = <<CommitGeneration(o)>>])
       ELSE /\ SetOp(o, [Returned(ops[o]) EXCEPT !.pc = "failed", !.err = "conflict",
                                                 !.at = ops[o].pc,
                                                 !.sent = <<CommitGeneration(o)>>])
            /\ UNCHANGED <<root, commits>>
    /\ UNCHANGED <<pureVars, blobs, fs, cacheFile, sync>>

\* update_root: the remote applies the update and the reply is lost.
UpdateRootReplyLost(o) ==
    /\ ops[o].pc = "m_update_root"
    /\ CommitGeneration(o) = root.generation
    /\ Applied(o, ops[o].doc_id, NewRootHash(o))
    /\ SetOp(o, [Returned(ops[o]) EXCEPT !.pc = "failed", !.err = "reply lost", !.at = ops[o].pc,
                                         !.sent = <<CommitGeneration(o)>>])
    /\ UNCHANGED <<pureVars, blobs, fs, cacheFile, sync>>

NetworkPcs ==
    {"c_upload", "r_fetch_schema", "r_fetch_meta", "r_upload_meta", "r_upload_schema",
     "m_get_root", "m_fetch_root", "m_upload_root", "m_update_root"}

\* The request in flight fails before it reaches the remote: `?` returns.
TransportError(o) ==
    /\ ops[o].pc \in NetworkPcs
    /\ FailOp(o, "transport")
    /\ UNCHANGED <<pureVars, remoteVars, fs, cacheFile, sync>>

ExternalCommits == Len(SelectSeq(commits, LAMBDA c : c.by = 0))

CurrentLines == TextOf(Fetch(root.hash)).lines

\* Another writer commits a new root index: it removes an entry, rewrites an
\* entry's schema (new content), or adds document x1.
ExternalIndexes ==
    LET lines == CurrentLines IN
    {[target |-> lines[i].id, blobs |-> {}, lines |-> RemoveAt(lines, i)] : i \in 2..Len(lines)}
    \cup
    {[target |-> lines[i].id,
      blobs |-> DocBlobs(lines[i].id, MetaX1, 9),
      lines |-> [lines EXCEPT ![i] = EntryOf(lines[i].id, lines[i].type, SchemaOf(lines[i].id, MetaX1, 9))]]
        : i \in 2..Len(lines)}
    \cup
    {[target |-> X1, blobs |-> DocBlobs(X1, MetaX1, 1),
      lines |-> Append(lines, EntryOf(X1, "DocumentType", SchemaOf(X1, MetaX1, 1)))]
        : k \in {j \in {1} : \A i \in 1..Len(lines) : lines[i].id # X1}}

ExternalCommit ==
    /\ ExternalCommits < MaxExternal
    /\ \E w \in ExternalIndexes :
          /\ blobs' = blobs \cup w.blobs \cup {Keyed(TextBlob(w.lines))}
          /\ Applied(0, w.target, compute_hash(TextBlob(w.lines)))
    /\ UNCHANGED <<pureVars, clientVars>>

NextWrite ==
    \/ \E o \in Ops :
          \/ StartRename(o) \/ StartDelete(o) \/ StartCreate(o)
          \/ UploadNext(o)
          \/ FetchSchema(o) \/ FetchMetadata(o) \/ UploadMetadata(o) \/ UploadSchema(o)
          \/ GetRoot(o) \/ FetchRootBlob(o) \/ UploadRootBlob(o)
          \/ UpdateRoot(o) \/ UpdateRootReplyLost(o)
          \/ TransportError(o)
    \/ ExternalCommit

SpecWrite == InitWrite /\ [][NextWrite]_vars

\* One write operation of this client beside the other writers.
NextOne ==
    \/ \E o \in {1} :
          \/ StartRename(o) \/ StartDelete(o) \/ StartCreate(o)
          \/ UploadNext(o)
          \/ FetchSchema(o) \/ FetchMetadata(o) \/ UploadMetadata(o) \/ UploadSchema(o)
          \/ GetRoot(o) \/ FetchRootBlob(o) \/ UploadRootBlob(o)
          \/ UpdateRoot(o) \/ UpdateRootReplyLost(o)
          \/ TransportError(o)
    \/ ExternalCommit

SpecOne == InitWrite /\ [][NextOne]_vars

(***************************************************************************)
(* mv: the shell's move, over the cached tree and the client's move_entry. *)
(***************************************************************************)

\* The id of a path that names no node.
NoNode == <<"none", 0>>

\* The ids of the nodes a path of the cached tree resolves to: the root (its
\* id is the nil UUID) and the cached documents.
TreeNodes == {NilUuid} \cup {fs.docs[i].id : i \in 1..Len(fs.docs)}

\* Node::is_directory of the node with this id.
IsDirectory(id) ==
    \/ id = NilUuid
    \/ \E i \in 1..Len(fs.docs) : fs.docs[i].id = id /\ fs.docs[i].doc_type = "Collection"

\* The destinations mv is called with: a path of a node, or a path of no
\* node whose parent path is a node or is none.
MvDestinations ==
    {[found |-> TRUE, node |-> n, name |-> ""] : n \in TreeNodes}
    \cup {[found |-> FALSE, node |-> n, name |-> "r"] : n \in TreeNodes \cup {NoNode}}

\* A dispatch that moves onto every destination that exists.
MvOutcomeOverwrite(d) ==
    IF d.found
    THEN [ok |-> TRUE, err |-> "", parent |-> d.node, name |-> ""]
    ELSE IF d.node = NoNode THEN [ok |-> FALSE, err |-> "path", parent |-> EmptyId, name |-> ""]
    ELSE IF ~IsDirectory(d.node)
         THEN [ok |-> FALSE, err |-> "parent not a directory", parent |-> EmptyId, name |-> ""]
    ELSE [ok |-> TRUE, err |-> "", parent |-> d.node, name |-> d.name]

\* mv's match on find_node_by_path(destination): the arguments it calls
\* move_entry with, or the error it returns.
MvOutcome(d) ==
    IF d.found
    THEN IF IsDirectory(d.node)
         THEN [ok |-> TRUE, err |-> "", parent |-> d.node, name |-> ""]
         ELSE [ok |-> FALSE, err |-> "exists", parent |-> EmptyId, name |-> ""]
    ELSE IF d.node = NoNode THEN [ok |-> FALSE, err |-> "path", parent |-> EmptyId, name |-> ""]
    ELSE IF ~IsDirectory(d.node)
         THEN [ok |-> FALSE, err |-> "parent not a directory", parent |-> EmptyId, name |-> ""]
    ELSE [ok |-> TRUE, err |-> "", parent |-> d.node, name |-> d.name]

\* mv is called with the path of a cached document and a destination; when
\* the destination is accepted move_entry starts as rename_entry does, with
\* the fetch of the document's schema.
Mv(o) ==
    /\ CanStart(o)
    /\ \E i \in 1..Len(fs.docs) : \E d \in MvDestinations :
          LET out == MvOutcome(d) IN
          IF out.ok
          THEN SetOp(o, [IdleOp EXCEPT !.kind = "move", !.pc = "r_fetch_schema",
                                       !.doc_id = fs.docs[i].id, !.doc_hash = fs.docs[i].hash,
                                       !.new_parent = out.parent, !.new_name = out.name,
                                       !.dest = d])
          ELSE SetOp(o, [IdleOp EXCEPT !.kind = "move", !.pc = "failed", !.err = out.err,
                                       !.at = "mv", !.doc_id = fs.docs[i].id, !.dest = d])
    /\ UNCHANGED <<pureVars, remoteVars, fs, cacheFile, sync>>

NextMove ==
    \/ \E o \in Ops :
          \/ Mv(o)
          \/ FetchSchema(o) \/ FetchMetadata(o) \/ UploadMetadata(o) \/ UploadSchema(o)
          \/ GetRoot(o) \/ FetchRootBlob(o) \/ UploadRootBlob(o)
          \/ UpdateRoot(o) \/ UpdateRootReplyLost(o)
          \/ TransportError(o)
    \/ ExternalCommit

SpecMove == InitWrite /\ [][NextMove]_vars

(***************************************************************************)
(* The read path: list_files, get_files and save_cache.                    *)
(***************************************************************************)

\* Entries of the remote index when the client is constructed.
MaxIndex == 2

\* Calls of list_files.
MaxSyncs == 2

MetaDeleted == Meta("c", "DocumentType", EmptyId, 2, FALSE, TRUE)

MetaNoName == Meta("", "DocumentType", D2, 3, FALSE, FALSE)

\* A schema that has no metadata line.
SchemaNoMetadata(id) ==
    TextBlob(<<VersionLine, Line(compute_hash(RawBlob(1)), "0", id, "content", "0", 1)>>)

Pooled(id, meta) ==
    [line |-> EntryOf(id, meta.type, SchemaOf(id, meta, 1)), blobs |-> DocBlobs(id, meta, 1)]

\* What a remote index can hold: a document, a directory, a deleted document,
\* ids in upper case and ids that are no UUID, a document without a name, a
\* schema without metadata line, a schema that is not stored, metadata that is
\* not stored, and a line of four fields.
EntryPool ==
    <<Pooled(D1, MetaD1),
      Pooled(D2, MetaD2),
      Pooled(<<"d", 3>>, MetaDeleted),
      Pooled(<<"D", 4>>, MetaD1),
      Pooled(<<"bad", 5>>, MetaD2),
      Pooled(<<"d", 6>>, MetaNoName),
      [line |-> EntryOf(<<"d", 7>>, "DocumentType", SchemaNoMetadata(<<"d", 7>>)),
       blobs |-> {Keyed(SchemaNoMetadata(<<"d", 7>>))}],
      [line |-> Line(Lit("gone"), "DocumentType", <<"d", 8>>, "", "2", 3), blobs |-> {}],
      [line |-> EntryOf(<<"d", 9>>, "DocumentType", SchemaOf(<<"d", 9>>, MetaX1, 2)),
       blobs |-> {Keyed(SchemaOf(<<"d", 9>>, MetaX1, 2))}],
      [line |-> [EntryD1 EXCEPT !.nf = 4, !.id = <<"d", 10>>], blobs |-> {}]>>

\* The pool members at the positions of picks, in pool order.
RECURSIVE PickLines(_, _)
PickLines(picks, i) ==
    IF i > Len(EntryPool) THEN <<>>
    ELSE (IF i \in picks THEN <<EntryPool[i].line>> ELSE <<>>) \o PickLines(picks, i + 1)

InitSync ==
    /\ \E picks \in {ps \in SUBSET (1..Len(EntryPool)) : Cardinality(ps) <= MaxIndex} :
          LET index == TextBlob(<<VersionLine>> \o PickLines(picks, 1)) IN
          /\ root = [hash |-> compute_hash(index), generation |-> 1]
          /\ blobs = UNION {EntryPool[i].blobs : i \in picks} \cup {Keyed(index)}
    /\ commits = <<>>
    /\ ops = [o \in Ops |-> IdleOp]
    /\ fs = EmptyFs
    /\ cacheFile = NoCacheFile
    /\ sync = IdleSync
    /\ tree = FileTreeNew
    /\ norm = NormIdle
    /\ auth = AuthIdle
    /\ shell = ShellIdle
    /\ HashIdle
    /\ CodecIdle

\* No write operation is between its start and its return.
NoOpRunning == \A o \in Ops : ops[o].pc \in {"idle", "done", "failed"}

\* remote_hash == self.filesystem.current_hash, always unequal.
CacheHitNever(remote_hash) == FALSE

\* remote_hash == self.filesystem.current_hash
CacheHit(remote_hash) == remote_hash = fs.current_hash

\* FileSystem::get_all_documents
get_all_documents == fs.docs

\* list_files: GET of the root pointer and the comparison with the cache.
ListFiles ==
    /\ sync.pc \in {"idle", "done", "failed"}
    /\ sync.calls < MaxSyncs
    /\ NoOpRunning
    /\ sync' = IF CacheHit(root.hash)
               THEN [IdleSync EXCEPT !.pc = "done", !.hit = TRUE, !.remote_hash = root.hash,
                                     !.docs = get_all_documents, !.calls = sync.calls + 1]
               ELSE [IdleSync EXCEPT !.pc = "gf_get_root", !.remote_hash = root.hash,
                                     !.calls = sync.calls + 1]
    /\ UNCHANGED <<pureVars, remoteVars, ops, fs, cacheFile>>

\* list_files: the GET of the root pointer fails.
ListFilesRootError ==
    /\ sync.pc \in {"idle", "done", "failed"}
    /\ sync.calls < MaxSyncs
    /\ NoOpRunning
    /\ sync' = [IdleSync EXCEPT !.pc = "failed", !.err = "transport", !.calls = sync.calls + 1]
    /\ UNCHANGED <<pureVars, remoteVars, ops, fs, cacheFile>>

\* get_files: its own GET of the root pointer.
GfGetRoot ==
    /\ sync.pc = "gf_get_root"
    /\ sync' = [sync EXCEPT !.pc = "gf_fetch_index", !.root_hash = root.hash]
    /\ UNCHANGED <<pureVars, remoteVars, ops, fs, cacheFile>>

\* parts[3].parse().unwrap_or(0) on the subfile counts an index holds.
CountValue(count) ==
    CASE count = "2" -> 2
      [] count = "4" -> 4
      [] OTHER -> 0

V4Entry(line) ==
    [hash |-> line.hash, doc_type |-> line.type, id |-> line.id,
     subfiles |-> CountValue(line.count), size |-> line.size]

\* get_files step 3: the lines after the first that have five fields or more.
RECURSIVE ParseIndex(_, _)
ParseIndex(lines, i) ==
    IF i > Len(lines) THEN <<>>
    ELSE (IF lines[i].nf < 5 THEN <<>> ELSE <<V4Entry(lines[i])>>) \o ParseIndex(lines, i + 1)

NoDocument ==
    [id |-> NilUuid, version |-> 0, doc_type |-> "", display_name |-> "", bookmarked |-> FALSE,
     parent |-> EmptyId, hash |-> Lit("")]

\* A spawned task: not yet run, between its two fetches, or finished with
\* None or Some(doc); failed tells a fetch or decode failure from a deletion.
PendingTask == [stage |-> "pending", m_hash |-> Lit(""), failed |-> FALSE, some |-> FALSE,
                doc |-> NoDocument]

\* get_files step 2 and 3: the fetch of the root index, its parse, and the
\* spawn of one task per entry.
GfFetchIndex ==
    /\ sync.pc = "gf_fetch_index"
    /\ IF ~Stored(sync.root_hash)
       THEN sync' = [sync EXCEPT !.pc = "failed", !.err = "status", !.fetches = @ + 1]
       ELSE LET entries == ParseIndex(TextOf(Fetch(sync.root_hash)).lines, 2) IN
            sync' = [sync EXCEPT !.pc = "gf_tasks", !.fetches = @ + 1, !.entries = entries,
                                 !.results = [i \in 1..Len(entries) |-> PendingTask]]
    /\ UNCHANGED <<pureVars, remoteVars, ops, fs, cacheFile>>

\* The requests of get_files before its tasks fail in transport.
SyncTransportError ==
    /\ sync.pc \in {"gf_get_root", "gf_fetch_index"}
    /\ sync' = [sync EXCEPT !.pc = "failed", !.err = "transport"]
    /\ UNCHANGED <<pureVars, remoteVars, ops, fs, cacheFile>>

\* The first line after the first that contains ".metadata", or 0.
TaskMetadataLine(lines) ==
    IF \E i \in 2..Len(lines) : ContainsMetadata(lines[i])
    THEN CHOOSE i \in 2..Len(lines) :
            ContainsMetadata(lines[i]) /\ \A j \in 2..(i - 1) : ~ContainsMetadata(lines[j])
    ELSE 0

\* A task that ends the whole of get_files when it cannot go on.
TaskNoneAborts(i, failed) ==
    sync' = [sync EXCEPT !.pc = "failed", !.err = "transport", !.fetches = @ + 1]

\* `return None` and the `?` on an Option inside a task.
TaskNone(i, failed) ==
    sync' = [sync EXCEPT !.fetches = @ + 1,
                         !.finished = Append(@, i),
                         !.results[i] = [PendingTask EXCEPT !.stage = "done", !.failed = failed]]

\* A task's fetch of the entry's schema and its search for the metadata line.
TaskFetchSchema(i) ==
    /\ sync.pc = "gf_tasks"
    /\ i \in 1..Len(sync.results)
    /\ sync.results[i].stage = "pending"
    /\ \E sent \in BOOLEAN :
          IF ~sent \/ ~Stored(sync.entries[i].hash) THEN TaskNone(i, TRUE)
          ELSE LET lines == TextOf(Fetch(sync.entries[i].hash)).lines
                   idx == TaskMetadataLine(lines)
               IN IF idx = 0 THEN TaskNone(i, TRUE)
                  ELSE sync' = [sync EXCEPT !.fetches = @ + 1,
                                            !.results[i].stage = "schema",
                                            !.results[i].m_hash = lines[idx].hash]
    /\ UNCHANGED <<pureVars, remoteVars, ops, fs, cacheFile>>

\* The deleted flag, never set.
DeletedIgnored(meta) == FALSE

\* metadata_json.deleted
Deleted(meta) == meta.deleted

\* A task's fetch of the metadata, its decode, and the Document it returns.
TaskFetchMetadata(i) ==
    /\ sync.pc = "gf_tasks"
    /\ i \in 1..Len(sync.results)
    /\ sync.results[i].stage = "schema"
    /\ \E sent \in BOOLEAN :
          LET m_hash == sync.results[i].m_hash IN
          IF ~sent \/ ~Stored(m_hash) THEN TaskNone(i, TRUE)
          ELSE IF Fetch(m_hash).kind # "json" THEN TaskNone(i, TRUE)
          ELSE IF Deleted(Fetch(m_hash).meta) THEN TaskNone(i, FALSE)
          ELSE sync' = [sync EXCEPT
                          !.fetches = @ + 1,
                          !.finished = Append(@, i),
                          !.results[i] = [stage |-> "done", m_hash |-> m_hash, failed |-> FALSE,
                                          some |-> TRUE,
                                          doc |-> DocumentOf(sync.entries[i], Fetch(m_hash).meta)]]
    /\ UNCHANGED <<pureVars, remoteVars, ops, fs, cacheFile>>

\* The loop over the joined results: the Some(doc) in task order.
RECURSIVE Documents(_, _)
Documents(results, i) ==
    IF i > Len(results) THEN <<>>
    ELSE (IF results[i].some THEN <<results[i].doc>> ELSE <<>>) \o Documents(results, i + 1)

\* A join that returns when the first task has finished.
JoinedFirst(results) ==
    results = <<>> \/ \E i \in 1..Len(results) : results[i].stage = "done"

\* futures::future::join_all(tasks).await: every task has finished.
Joined(results) == \A i \in 1..Len(results) : results[i].stage = "done"

\* A save under the hash list_files read.
SavedHashFirstRead == sync.remote_hash

\* The hash get_files returns and list_files passes to save_cache.
SavedHash == sync.root_hash

\* get_files' join and return, then save_cache: the cache directory is not
\* available (nothing is changed), or the cache in memory is replaced and the
\* file is written or its write fails.
JoinAndSave ==
    /\ sync.pc = "gf_tasks"
    /\ Joined(sync.results)
    /\ LET documents == Documents(sync.results, 1) IN
       \E outcome \in {"ok", "no cache dir", "io"} :
          /\ sync' = [sync EXCEPT !.pc = IF outcome = "ok" THEN "done" ELSE "failed",
                                  !.err = IF outcome = "ok" THEN "" ELSE outcome,
                                  !.docs = documents]
          /\ fs' = IF outcome = "no cache dir" THEN fs
                   ELSE [current_hash |-> SavedHash, docs |-> documents]
          /\ cacheFile' = IF outcome = "ok"
                          THEN [present |-> TRUE, content |-> "json", hash |-> SavedHash,
                                docs |-> documents]
                          ELSE cacheFile
    /\ UNCHANGED <<pureVars, remoteVars, ops>>

NextSync ==
    \/ ListFiles
    \/ ListFilesRootError
    \/ GfGetRoot
    \/ GfFetchIndex
    \/ SyncTransportError
    \/ \E i \in 1..MaxIndex : TaskFetchSchema(i) \/ TaskFetchMetadata(i)
    \/ JoinAndSave

SpecSync == InitSync /\ [][NextSync]_vars

\* rename_entry over the schemas other devices write.  MetaBare is metadata
\* without a "version" key; a schema may have two metadata lines or none.
MetaBare == [Meta("a", "DocumentType", EmptyId, 0, FALSE, FALSE) EXCEPT !.versioned = FALSE]

MetadataLine(id, meta) ==
    Line(compute_hash(JsonBlob(meta)), "0", id, "metadata", "0", ByteLen(JsonBlob(meta)))

SchemaTwoMetadata ==
    TextBlob(<<VersionLine, MetadataLine(D1, MetaD1),
               Line(compute_hash(RawBlob(1)), "0", D1, "content", "0", 1),
               MetadataLine(D1, MetaD2)>>)

SchemaNoMetadataLine ==
    TextBlob(<<VersionLine, Line(compute_hash(RawBlob(1)), "0", D1, "content", "0", 1)>>)

\* The schemas of d1 from which a sync makes a Document, with their metadata.
RenameSchemas ==
    {[schema |-> SchemaOf(D1, MetaD1, 1), meta |-> MetaD1],
     [schema |-> SchemaOf(D1, MetaBare, 1), meta |-> MetaBare],
     [schema |-> SchemaTwoMetadata, meta |-> MetaD1]}

\* A synced client over an index of d1 alone; the store also has a schema
\* without a metadata line, which no index names.
InitRename ==
    /\ \E s \in RenameSchemas :
          LET index == TextBlob(<<VersionLine, EntryOf(D1, "DocumentType", s.schema)>>) IN
          /\ root = [hash |-> compute_hash(index), generation |-> 1]
          /\ blobs = {Keyed(RawBlob(1)), Keyed(JsonBlob(MetaD1)), Keyed(JsonBlob(MetaD2)),
                      Keyed(JsonBlob(MetaBare)), Keyed(s.schema), Keyed(SchemaNoMetadataLine),
                      Keyed(index)}
          /\ fs = [current_hash |-> compute_hash(index),
                   docs |-> <<DocumentOf(EntryOf(D1, "DocumentType", s.schema), s.meta)>>]
    /\ commits = <<>>
    /\ ops = [o \in Ops |-> IdleOp]
    /\ cacheFile = [present |-> TRUE, content |-> "json", hash |-> fs.current_hash, docs |-> fs.docs]
    /\ sync = IdleSync
    /\ tree = FileTreeNew
    /\ norm = NormIdle
    /\ auth = AuthIdle
    /\ shell = ShellIdle
    /\ HashIdle
    /\ CodecIdle

\* rename_entry is called with a Document the caller holds: one of the cached
\* list, or one whose hash names the schema without a metadata line.
StartRenameOf(o) ==
    /\ CanStart(o)
    /\ \E hash \in {fs.docs[i].hash : i \in 1..Len(fs.docs)} \cup {compute_hash(SchemaNoMetadataLine)} :
       \E name \in NewNames :
          SetOp(o, [IdleOp EXCEPT !.kind = "rename", !.pc = "r_fetch_schema",
                                  !.doc_id = D1, !.doc_hash = hash, !.new_name = name])
    /\ UNCHANGED <<pureVars, remoteVars, fs, cacheFile, sync>>

NextRename ==
    \E o \in Ops :
        \/ StartRenameOf(o)
        \/ FetchSchema(o) \/ FetchMetadata(o) \/ UploadMetadata(o) \/ UploadSchema(o)
        \/ GetRoot(o) \/ FetchRootBlob(o) \/ UploadRootBlob(o)
        \/ UpdateRoot(o) \/ UpdateRootReplyLost(o)
        \/ TransportError(o)

SpecRename == InitRename /\ [][NextRename]_vars

(***************************************************************************)
(* list_files beside other writers.                                        *)
(***************************************************************************)

\* A client with an empty cache over the remote of two documents.
InitRace ==
    /\ root = [hash |-> compute_hash(WriteRootBlob), generation |-> 1]
    /\ blobs = DocBlobs(D1, MetaD1, 1) \cup DocBlobs(D2, MetaD2, 1) \cup {Keyed(WriteRootBlob)}
    /\ commits = <<>>
    /\ ops = [o \in Ops |-> IdleOp]
    /\ fs = EmptyFs
    /\ cacheFile = NoCacheFile
    /\ sync = IdleSync
    /\ tree = FileTreeNew
    /\ norm = NormIdle
    /\ auth = AuthIdle
    /\ shell = ShellIdle
    /\ HashIdle
    /\ CodecIdle

NextRace ==
    \/ NextSync
    \/ ExternalCommit

SpecRace == InitRace /\ [][NextRace]_vars

(***************************************************************************)
(* refetch_if_unauthorized of token.rs: a sync, and after an unauthorized  *)
(* error a token refresh, the write of the token file and one more sync.   *)
(***************************************************************************)

\* Error::is_unauthorized
IsUnauthorized(err) == err = "unauthorized"

\* A dispatch that refreshes the token after any error.
AfterFirstAnyError(out) == IF out = "ok" THEN "ok" ELSE "refresh"

\* The match on the first list_files: Ok, the refresh, or the error returned.
AfterFirst(out) ==
    IF out = "ok" THEN "ok"
    ELSE IF IsUnauthorized(out) THEN "refresh"
    ELSE "err"

\* What the list_files that has just returned gave: Ok or its error.
ListFilesResult == IF sync.pc = "done" THEN "ok" ELSE sync.err

\* The list_files the caller is waiting for has not begun, or has returned.
SyncNotBegun == auth.pc \in {"first", "retry"} /\ sync.calls = auth.base

SyncReturned == sync.calls = auth.base + 1 /\ sync.pc \in {"done", "failed"}

\* The remote stops accepting the user token (between two requests of the
\* client that holds it).
TokenExpires ==
    /\ auth.valid
    /\ auth.pc # "idle"
    /\ sync.pc \in {"idle", "done", "failed"}
    /\ auth' = [auth EXCEPT !.valid = FALSE]
    /\ UNCHANGED <<hashIn, hashOut, codecIn, codecOut, tree, norm, shell, remoteVars, clientVars>>

\* list_files: the remote answers the GET of the root pointer with 401 and
\* error_for_status returns the error.
ListFilesUnauthorized ==
    /\ SyncNotBegun
    /\ ~auth.valid
    /\ sync' = [IdleSync EXCEPT !.pc = "failed", !.err = "unauthorized", !.calls = sync.calls + 1]
    /\ UNCHANGED <<pureVars, remoteVars, ops, fs, cacheFile>>

\* refetch_if_unauthorized is called.
RefetchCall ==
    /\ auth.pc \in {"idle", "ok", "err"}
    /\ sync.pc \in {"idle", "done", "failed"}
    /\ sync.calls + 2 <= MaxSyncs
    /\ auth' = [AuthIdle EXCEPT !.pc = "first", !.valid = auth.valid, !.file = auth.file,
                                !.base = sync.calls]
    /\ UNCHANGED <<hashIn, hashOut, codecIn, codecOut, tree, norm, shell, remoteVars, clientVars>>

\* The first list_files has returned: the match on its result.
FirstReturns ==
    /\ auth.pc = "first"
    /\ SyncReturned
    /\ LET out == ListFilesResult IN
       auth' = [auth EXCEPT !.pc = AfterFirst(out), !.first = out,
                            !.err = IF AfterFirst(out) = "err" THEN out ELSE "",
                            !.syncs = @ + 1]
    /\ UNCHANGED <<hashIn, hashOut, codecIn, codecOut, tree, norm, shell, remoteVars, clientVars>>

\* client.refresh_token: a new user token, which the file does not hold yet,
\* or the error of the request.
Refresh ==
    /\ auth.pc = "refresh"
    /\ \E ok \in BOOLEAN :
          auth' = IF ok
                  THEN [auth EXCEPT !.pc = "write", !.valid = TRUE, !.file = FALSE, !.refreshes = @ + 1]
                  ELSE [auth EXCEPT !.pc = "err", !.err = "refresh", !.refreshes = @ + 1]
    /\ UNCHANGED <<hashIn, hashOut, codecIn, codecOut, tree, norm, shell, remoteVars, clientVars>>

\* write_token_file, then the call of the second list_files.
WriteTokenFile ==
    /\ auth.pc = "write"
    /\ \E ok \in BOOLEAN :
          auth' = IF ok
                  THEN [auth EXCEPT !.pc = "retry", !.file = TRUE, !.writes = @ + 1,
                                    !.base = sync.calls]
                  ELSE [auth EXCEPT !.pc = "err", !.err = "io"]
    /\ UNCHANGED <<hashIn, hashOut, codecIn, codecOut, tree, norm, shell, remoteVars, clientVars>>

\* The second list_files has returned: its error is returned.
RetryReturns ==
    /\ auth.pc = "retry"
    /\ SyncReturned
    /\ LET out == ListFilesResult IN
       auth' = [auth EXCEPT !.pc = IF out = "ok" THEN "ok" ELSE "err", !.second = out,
                            !.err = IF out = "ok" THEN "" ELSE out, !.syncs = @ + 1]
    /\ UNCHANGED <<hashIn, hashOut, codecIn, codecOut, tree, norm, shell, remoteVars, clientVars>>

\* A client with an empty cache over the remote of two documents.
InitAuth == InitRace

NextAuth ==
    \/ TokenExpires
    \/ RefetchCall
    \/ SyncNotBegun /\ auth.valid /\ ListFiles
    \/ SyncNotBegun /\ ListFilesRootError
    \/ ListFilesUnauthorized
    \/ GfGetRoot
    \/ GfFetchIndex
    \/ SyncTransportError
    \/ \E i \in 1..MaxIndex : TaskFetchSchema(i) \/ TaskFetchMetadata(i)
    \/ JoinAndSave
    \/ FirstReturns
    \/ Refresh
    \/ WriteTokenFile
    \/ RetryReturns

SpecAuth == InitAuth /\ [][NextAuth]_vars

(***************************************************************************)
(* The client's start: Client::from_token over FileSystem::load_cache,     *)
(* then syncs, and the client dropped and started again.                   *)
(***************************************************************************)

\* Before from_token has returned there is no client.
NoClient == [IdleSync EXCEPT !.pc = "no client"]

\* Cache files that load_cache cannot use.
BadCacheFiles ==
    {[NoCacheFile EXCEPT !.present = TRUE, !.content = c] : c \in {"garbage", "unreadable"}}

InitStart ==
    /\ \E picks \in {ps \in SUBSET (1..Len(EntryPool)) : Cardinality(ps) <= MaxIndex} :
          LET index == TextBlob(<<VersionLine>> \o PickLines(picks, 1)) IN
          /\ root = [hash |-> compute_hash(index), generation |-> 1]
          /\ blobs = UNION {EntryPool[i].blobs : i \in picks} \cup {Keyed(index)}
    /\ commits = <<>>
    /\ ops = [o \in Ops |-> IdleOp]
    /\ fs = EmptyFs
    /\ cacheFile \in {NoCacheFile} \cup BadCacheFiles
    /\ sync = NoClient
    /\ tree = FileTreeNew
    /\ norm = NormIdle
    /\ auth = AuthIdle
    /\ shell = ShellIdle
    /\ HashIdle
    /\ CodecIdle

\* FileSystem::load_cache: Ok of the decoded file, Ok(FileSystem::new()) when
\* there is no file, Err when there is no cache directory or the file cannot
\* be read or decoded.
load_cache(dir) ==
    IF ~dir THEN [ok |-> FALSE, fs |-> EmptyFs]
    ELSE IF ~cacheFile.present THEN [ok |-> TRUE, fs |-> EmptyFs]
    ELSE IF cacheFile.content # "json" THEN [ok |-> FALSE, fs |-> EmptyFs]
    ELSE [ok |-> TRUE, fs |-> [current_hash |-> cacheFile.hash, docs |-> cacheFile.docs]]

\* A from_token that returns load_cache's error.
FromTokenStrict ==
    /\ sync.pc = "no client"
    /\ \E dir \in BOOLEAN :
          LET loaded == load_cache(dir) IN
          /\ fs' = loaded.fs
          /\ sync' = [sync EXCEPT !.pc = IF loaded.ok THEN "idle" ELSE "no client failed"]
    /\ UNCHANGED <<pureVars, remoteVars, ops, cacheFile>>

\* Client::from_token: load_cache().unwrap_or_else(|e| FileSystem::new()).
FromToken ==
    /\ sync.pc = "no client"
    /\ \E dir \in BOOLEAN :
          LET loaded == load_cache(dir) IN
          /\ fs' = IF loaded.ok THEN loaded.fs ELSE EmptyFs
          /\ sync' = [sync EXCEPT !.pc = "idle"]
    /\ UNCHANGED <<pureVars, remoteVars, ops, cacheFile>>

\* The program ends between two calls and is started again: the client and
\* its cache in memory are gone, the file stays.
Restart ==
    /\ sync.pc \in {"done", "failed"}
    /\ sync.calls < MaxSyncs
    /\ fs' = EmptyFs
    /\ sync' = [NoClient EXCEPT !.calls = sync.calls]
    /\ UNCHANGED <<pureVars, remoteVars, ops, cacheFile>>

NextStart ==
    \/ FromToken
    \/ Restart
    \/ NextSync

SpecStart == InitStart /\ [][NextStart]_vars

(***************************************************************************)
(* normalize_path of filesystem.rs.  A path is [abs, parts]; a component   *)
(* is "/" (RootDir), "." (CurDir), ".." (ParentDir) or a name (Normal).    *)
(***************************************************************************)

\* Longest path and longest working directory, in pieces.
MaxPathLen == 3

MaxCwdLen == 2

\* The pieces of a path: names, '.', '..' and the empty piece of "//".
PathPieces == {"a", "b", ".", "..", ""}

\* A relative path does not start with an empty piece.
Paths(n) ==
    {p \in [abs : BOOLEAN, parts : SeqsUpTo(PathPieces, n)] :
        p.abs \/ p.parts = <<>> \/ p.parts[1] # ""}

\* Path::components: RootDir for a leading '/', no component for an empty
\* piece or for a '.' that is not the first piece of a relative path.
RECURSIVE ComponentsFrom(_, _)
ComponentsFrom(p, i) ==
    IF i > Len(p.parts) THEN <<>>
    ELSE LET piece == p.parts[i]
             kept == IF piece = "" THEN <<>>
                     ELSE IF piece = "." THEN (IF i = 1 /\ ~p.abs THEN <<".">> ELSE <<>>)
                     ELSE <<piece>>
         IN kept \o ComponentsFrom(p, i + 1)

Components(p) == (IF p.abs THEN <<"/">> ELSE <<>>) \o ComponentsFrom(p, 1)

IsNormal(c) == c \notin {"/", ".", ".."}

\* A loop body that keeps '..' as a component.
NormalizeStepKeepsParent(components, comp) ==
    IF comp = "." THEN components ELSE Append(components, comp)

\* The body of normalize_path's loop over path.components().
NormalizeStep(components, comp) ==
    IF comp = "." THEN components
    ELSE IF comp = ".."
         THEN IF components # <<>> /\ IsNormal(components[Len(components)])
              THEN SubSeq(components, 1, Len(components) - 1)
              ELSE components
    ELSE Append(components, comp)

RECURSIVE NormalizeLoop(_, _, _)
NormalizeLoop(components, comps, i) ==
    IF i > Len(comps) THEN components
    ELSE NormalizeLoop(NormalizeStep(components, comps[i]), comps, i + 1)

\* normalize_path(path, cwd): the components collected into the PathBuf.
normalize_path(path, cwd) ==
    NormalizeLoop(IF ~path.abs THEN Components(cwd) ELSE <<>>, Components(path), 1)

InitNorm ==
    /\ \E path \in Paths(MaxPathLen) : \E cwd \in Paths(MaxCwdLen) :
          /\ cwd.abs
          /\ norm = [path |-> path, cwd |-> cwd, done |-> FALSE, out |-> <<>>]
    /\ auth = AuthIdle
    /\ shell = ShellIdle
    /\ tree = FileTreeNew
    /\ root = [hash |-> Lit(""), generation |-> 0]
    /\ blobs = {}
    /\ commits = <<>>
    /\ ops = [o \in Ops |-> IdleOp]
    /\ fs = EmptyFs
    /\ cacheFile = NoCacheFile
    /\ sync = IdleSync
    /\ HashIdle
    /\ CodecIdle

Normalize ==
    /\ ~norm.done
    /\ norm' = [norm EXCEPT !.done = TRUE, !.out = normalize_path(norm.path, norm.cwd)]
    /\ UNCHANGED <<hashIn, hashOut, codecIn, codecOut, tree, auth, shell, remoteVars, clientVars>>

NextNorm == Normalize

SpecNorm == InitNorm /\ [][NextNorm]_vars

(***************************************************************************)
(* The tree: FileTree::new and FileTree::build of objects/node.rs.  Ids    *)
(* and parents are strings; "nil" is the nil UUID as to_string() prints    *)
(* it, the id of the root node and of the trash node.                      *)
(***************************************************************************)

\* Longest document list handed to FileTree::build.
MaxDocs == 3

\* Document ids, in the order the lists below are written in.
TreeIds == <<"a", "b", "c", "nil">>

\* Parent strings: empty, the trash sentinel, ids, and "x", the id of nothing.
TreeParents == {"", "trash", "a", "b", "nil", "x"}

Rank(id) == CHOOSE i \in 1..Len(TreeIds) : TreeIds[i] = id

\* The lists handed to build.  build collects them into a map keyed by id, so
\* the order of a list matters only among documents of equal id: lists are
\* written with ids in TreeIds order.
TreeDocuments ==
    {ds \in SeqsUpTo([id : {TreeIds[i] : i \in 1..Len(TreeIds)}, parent : TreeParents], MaxDocs) :
        \A i \in 1..(Len(ds) - 1) : Rank(ds[i].id) <= Rank(ds[i + 1].id)}

InitTree ==
    /\ \E ds \in TreeDocuments : tree = [FileTreeNew EXCEPT !.documents = ds]
    /\ root = [hash |-> Lit(""), generation |-> 0]
    /\ blobs = {}
    /\ commits = <<>>
    /\ ops = [o \in Ops |-> IdleOp]
    /\ fs = EmptyFs
    /\ cacheFile = NoCacheFile
    /\ sync = IdleSync
    /\ norm = NormIdle
    /\ auth = AuthIdle
    /\ shell = ShellIdle
    /\ HashIdle
    /\ CodecIdle

\* id_to_node: collect() keeps, for each id, the last document that has it.
IdToNode(documents) ==
    {documents[i] : i \in {k \in 1..Len(documents) :
                              \A j \in (k + 1)..Len(documents) : documents[j].id # documents[k].id}}

\* child_to_parent.get(id)
ChildToParent(id) == (CHOOSE n \in tree.nodes : n.id = id).parent

\* FileTree::build up to the while loop: the trash node, id_to_node,
\* child_to_parent, and the documents with an empty parent under root.
Build ==
    /\ tree.pc = "new"
    /\ LET nodes == IdToNode(tree.documents)
           rootLevel == {n.id : n \in {m \in nodes : m.parent = ""}}
       IN tree' = [tree EXCEPT !.pc = "while",
                               !.nodes = nodes,
                               !.trash = TRUE,
                               !.placed = {[id |-> id, under |-> "/"] : id \in rootLevel},
                               !.remaining = {n.id : n \in nodes} \ rootLevel,
                               !.progress = TRUE]
    /\ UNCHANGED <<hashIn, hashOut, codecIn, codecOut, norm, auth, shell, remoteVars, clientVars>>

\* A loop test that goes on while documents remain.
WhileTestNoProgress ==
    /\ tree.pc = "while"
    /\ IF tree.remaining # {}
       THEN tree' = [tree EXCEPT !.pc = "for", !.progress = FALSE, !.current = tree.remaining]
       ELSE tree' = [tree EXCEPT
                        !.pc = "built",
                        !.placed = @ \cup {[id |-> id, under |-> "/"] : id \in tree.remaining},
                        !.remaining = {}]
    /\ UNCHANGED <<hashIn, hashOut, codecIn, codecOut, norm, auth, shell, remoteVars, clientVars>>

\* while !remaining.is_empty() && progress: one more pass over the ids that
\* remain, or the end of the loop and the placement under root of what remains.
WhileTest ==
    /\ tree.pc = "while"
    /\ IF tree.remaining # {} /\ tree.progress
       THEN tree' = [tree EXCEPT !.pc = "for", !.progress = FALSE, !.current = tree.remaining]
       ELSE tree' = [tree EXCEPT
                        !.pc = "built",
                        !.placed = @ \cup {[id |-> id, under |-> "/"] : id \in tree.remaining},
                        !.remaining = {}]
    /\ UNCHANGED <<hashIn, hashOut, codecIn, codecOut, norm, auth, shell, remoteVars, clientVars>>

\* A search that looks at the root and at its children only.
FindNodeRootLevel(placed, id) ==
    IF id = "nil" THEN "/"
    ELSE IF \E p \in placed : p.id = id /\ p.under = "/" THEN id
    ELSE ""

\* find_node_mut(&mut tree.root, id): the root when id is the nil UUID (the
\* root is compared first), else the placed node of that id; "" for None.
FindNode(placed, id) ==
    IF id = "nil" THEN "/"
    ELSE IF \E p \in placed : p.id = id THEN id
    ELSE ""

\* A turn of the for loop that places a node and leaves progress as it is.
VisitKeepsProgress(id) ==
    /\ tree.pc = "for"
    /\ id \in tree.current
    /\ LET parent_id == ChildToParent(id)
           under == IF parent_id = "trash" THEN "trash" ELSE FindNode(tree.placed, parent_id)
       IN IF under = ""
          THEN tree' = [tree EXCEPT !.current = @ \ {id}]
          ELSE tree' = [tree EXCEPT !.current = @ \ {id},
                                    !.remaining = @ \ {id},
                                    !.placed = @ \cup {[id |-> id, under |-> under]}]
    /\ UNCHANGED <<hashIn, hashOut, codecIn, codecOut, norm, auth, shell, remoteVars, clientVars>>

\* One turn of the for loop, for any id of the pass: the keys of a HashMap
\* come in no specified order.
Visit(id) ==
    /\ tree.pc = "for"
    /\ id \in tree.current
    /\ LET parent_id == ChildToParent(id)
           under == IF parent_id = "trash" THEN "trash" ELSE FindNode(tree.placed, parent_id)
       IN IF under = ""
          THEN tree' = [tree EXCEPT !.current = @ \ {id}]
          ELSE tree' = [tree EXCEPT !.current = @ \ {id},
                                    !.remaining = @ \ {id},
                                    !.placed = @ \cup {[id |-> id, under |-> under]},
                                    !.progress = TRUE]
    /\ UNCHANGED <<hashIn, hashOut, codecIn, codecOut, norm, auth, shell, remoteVars, clientVars>>

\* The for loop has visited every id of the pass.
ForEnd ==
    /\ tree.pc = "for"
    /\ tree.current = {}
    /\ tree' = [tree EXCEPT !.pc = "while"]
    /\ UNCHANGED <<hashIn, hashOut, codecIn, codecOut, norm, auth, shell, remoteVars, clientVars>>

BuildStep ==
    \/ Build
    \/ WhileTest
    \/ \E i \in 1..Len(TreeIds) : Visit(TreeIds[i])
    \/ ForEnd

NextTree == BuildStep

\* build runs to its end: it is sequential code that is never suspended.
SpecTree == InitTree /\ [][NextTree]_vars /\ WF_vars(BuildStep)

\* build over lists in any order: documents of pairwise distinct ids, the
\* nil UUID among them, written in every order.
PermIds == {"a", "b", "nil"}

PermDocuments ==
    {ds \in SeqsUpTo([id : PermIds, parent : TreeParents], MaxDocs) :
        \A i, j \in 1..Len(ds) : ds[i].id = ds[j].id => i = j}

InitPerm ==
    /\ \E ds \in PermDocuments : tree = [FileTreeNew EXCEPT !.documents = ds]
    /\ root = [hash |-> Lit(""), generation |-> 0]
    /\ blobs = {}
    /\ commits = <<>>
    /\ ops = [o \in Ops |-> IdleOp]
    /\ fs = EmptyFs
    /\ cacheFile = NoCacheFile
    /\ sync = IdleSync
    /\ norm = NormIdle
    /\ auth = AuthIdle
    /\ shell = ShellIdle
    /\ HashIdle
    /\ CodecIdle

SpecPerm == InitPerm /\ [][NextTree]_vars

(***************************************************************************)
(* FileSystem::cd and find_node_by_path over the tree of the cached list.  *)
(***************************************************************************)

\* The documents of the cached lists below, in the order of their ids.
CdIds == <<D1, D2, X1>>

\* A cached Document of the given name, type and parent.
CdDocument(id, name, type, parent) ==
    [NoDocument EXCEPT !.id = id, !.display_name = name, !.doc_type = type, !.parent = parent]

\* The cached lists: three documents named "a" or "b", files or
\* directories, the first under root and each other one under root or under
\* an earlier one (build puts a node under its parent whatever its type).
CdLists ==
    {<<CdDocument(D1, n1, t1, EmptyId), CdDocument(D2, n2, t2, p2), CdDocument(X1, n3, t3, p3)>> :
        n1 \in {"a"}, t1 \in {"Document", "Collection"},
        n2 \in {"a", "b"}, t2 \in {"Document", "Collection"}, p2 \in {EmptyId, D1},
        n3 \in {"b"}, t3 \in {"Document", "Collection"}, p3 \in {D1, D2}}

InitCd ==
    /\ \E docs \in CdLists : fs = [current_hash |-> Lit("h"), docs |-> docs]
    /\ \E order \in BOOLEAN : shell = [ShellIdle EXCEPT !.order = order]
    /\ cacheFile = NoCacheFile
    /\ root = [hash |-> Lit(""), generation |-> 0]
    /\ blobs = {}
    /\ commits = <<>>
    /\ ops = [o \in Ops |-> IdleOp]
    /\ sync = IdleSync
    /\ tree = FileTreeNew
    /\ norm = NormIdle
    /\ auth = AuthIdle
    /\ HashIdle
    /\ CodecIdle

\* The place of an id in the iteration of a children map.
CdRank(id) ==
    LET i == CHOOSE k \in 1..Len(CdIds) : CdIds[k] = id
    IN IF shell.order THEN Len(CdIds) - i ELSE i

\* node.children of the node with this id (the root's id is the nil UUID; the
\* trash node, a child of root named "trash", is the name of no path here).
Children(id) ==
    {fs.docs[i].id : i \in {k \in 1..Len(fs.docs) :
                              fs.docs[k].parent = (IF id = NilUuid THEN EmptyId ELSE id)}}

NodeDocument(id) == fs.docs[CHOOSE i \in 1..Len(fs.docs) : fs.docs[i].id = id]

\* current.children.values().find(|node| node.name() == part_str)
FindChild(id, part) ==
    LET named == {c \in Children(id) : NodeDocument(c).display_name = part}
    IN IF named = {} THEN NoNode
       ELSE CHOOSE c \in named : \A d \in named : CdRank(c) <= CdRank(d)

\* The loop of find_node_by_path over the Normal components.
RECURSIVE Walk(_, _, _)
Walk(current, components, i) ==
    IF i > Len(components) THEN current
    ELSE IF ~IsNormal(components[i]) THEN Walk(current, components, i + 1)
    ELSE IF FindChild(current, components[i]) = NoNode THEN NoNode
    ELSE Walk(FindChild(current, components[i]), components, i + 1)

\* The components of a PathBuf as a path: '/' first for an absolute one.
AsPath(components) ==
    IF components # <<>> /\ components[1] = "/"
    THEN [abs |-> TRUE, parts |-> Tail(components)]
    ELSE [abs |-> FALSE, parts |-> components]

\* FileSystem::find_node_by_path: the node's id, or NoNode for Err.
find_node_by_path(components) ==
    Walk(NilUuid, normalize_path(AsPath(components), RootPath), 1)

\* A cd that accepts every node it finds.
CdResultAnyNode(node) == IF node = NoNode THEN "not found" ELSE "ok"

\* cd after the lookup: Ok for a directory, an error otherwise.
CdResult(node) ==
    IF node = NoNode THEN "not found"
    ELSE IF IsDirectory(node) THEN "ok"
    ELSE "not a directory"

\* FileSystem::cd
Cd ==
    /\ \E path \in Paths(MaxPathLen) :
          LET normalized == normalize_path(path, AsPath(shell.current_path))
              result == CdResult(find_node_by_path(normalized))
          IN shell' = [shell EXCEPT !.result = result,
                                    !.current_path = IF result = "ok" THEN normalized ELSE @]
    /\ UNCHANGED <<hashIn, hashOut, codecIn, codecOut, tree, norm, auth, remoteVars, clientVars>>

NextCd == Cd

SpecCd == InitCd /\ [][NextCd]_vars

(***************************************************************************)
(* Claims                                                                  *)
(***************************************************************************)

\* The commit of the operation in slot o failed on a stale generation.
ConflictReported(o) ==
    /\ ops[o].pc = "failed"
    /\ ops[o].at = "m_update_root"
    /\ ops[o].err = "conflict"

\* C1: when another writer has advanced the remote generation since the
\* operation read the root pointer, the operation's commit step fails and
\* leaves the root pointer's hash and generation as the other writer set them.
C1_StaleCommitFailsRootKept ==
    [][\A o \in Ops :
          (/\ ops[o].pc = "m_update_root"
           /\ ops[o].current_generation # root.generation
           /\ ops'[o] # ops[o])
          => (ops'[o].pc = "failed" /\ root' = root)]_vars

\* An operation read generation 1, another writer committed, and the
\* operation's commit has failed with the pointer at the other writer's value.
C1_Witness ==
    \E o \in Ops :
        /\ ConflictReported(o)
        /\ ops[o].current_generation < root.generation
        /\ commits # <<>>
        /\ commits[Len(commits)].new = root.hash
        /\ commits[Len(commits)].by # o

\* The position in commits of the commit made by slot o, or 0.
CommitIdx(o) ==
    IF \E i \in 1..Len(commits) : commits[i].by = o
    THEN CHOOSE i \in 1..Len(commits) : commits[i].by = o
    ELSE 0

\* The change the operation in slot o asked for is in the current root index.
Effect(o) ==
    LET lines == CurrentLines
        has == \E i \in 2..Len(lines) :
                  lines[i].id = ops[o].doc_id /\ lines[i].hash = compute_hash(ops[o].new_doc_schema)
    IN IF ops[o].kind = "delete"
       THEN \A i \in 2..Len(lines) : lines[i].id # ops[o].doc_id
       ELSE has

\* A later commit concerns the same document as the commit of slot o.
Superseded(o) ==
    \E j \in (CommitIdx(o) + 1)..Len(commits) : commits[j].target = ops[o].doc_id

C3_ConflictIsRetried ==
    \A o \in Ops : ConflictReported(o) => ops[o].attempts > 1

\* C4: the root pointer changes only in the step of an operation that follows
\* the upload of its new root index (or by another writer's commit): every
\* other step of an operation, its failures included, leaves the pointer's
\* hash and generation unchanged.
C4_RootMovesOnlyAtCommit ==
    [][/\ \A o \in Ops :
             (ops[o].pc # "m_update_root" /\ ops'[o] # ops[o]) => root' = root
       /\ root' # root =>
             \/ \E o \in Ops : ops[o].pc = "m_update_root" /\ ops'[o].pc \in {"done", "failed"}
             \/ (ops' = ops /\ commits'[Len(commits')].by = 0)]_vars

\* An upload_document failed after some of its blobs were stored, no commit
\* was made, and the root pointer is the initial one.
C4_Witness ==
    \E o \in Ops :
        /\ ops[o].pc = "failed"
        /\ ops[o].at = "c_upload"
        /\ ops[o].upload_i > 1
        /\ commits = <<>>
        /\ root = [hash |-> compute_hash(WriteRootBlob), generation |-> 1]

\* The metadata a schema hash leads to in the blob store.
MetadataHashOf(h) == LET lines == TextOf(Fetch(h)).lines IN lines[TaskMetadataLine(lines)].hash

Resolves(h) ==
    /\ Stored(h)
    /\ TaskMetadataLine(TextOf(Fetch(h)).lines) # 0
    /\ Stored(MetadataHashOf(h))
    /\ Fetch(MetadataHashOf(h)).kind = "json"

MetadataOf(h) == Fetch(MetadataHashOf(h)).meta

\* A call of list_files has made a full sync and returned Ok.
FullSyncDone == sync.pc = "done" /\ ~sync.hit

\* C5: a call of list_files that reads a remote root hash equal to the cached
\* hash returns at once with the cached document list, has made no blob fetch,
\* and leaves the cache in memory, the cache file and the blob store as they are.
C5_CacheHitFetchesNothing ==
    [][(/\ sync'.calls = sync.calls + 1
        /\ sync'.pc # "failed"
        /\ root.hash = fs.current_hash)
       => (/\ sync'.pc = "done"
           /\ sync'.docs = fs.docs
           /\ sync'.fetches = 0
           /\ fs' = fs
           /\ cacheFile' = cacheFile
           /\ blobs' = blobs)]_vars

\* The second call of list_files found the hash its first call cached and
\* returned the cached, non-empty list.
C5_Witness ==
    /\ sync.calls = 2
    /\ sync.pc = "done"
    /\ sync.hit
    /\ sync.remote_hash = fs.current_hash
    /\ sync.docs # <<>>
    /\ sync.docs = cacheFile.docs

Listed(docs) == {docs[i] : i \in 1..Len(docs)}

\* C6: no document returned by list_files, held by the cache in memory or
\* written to the cache file has metadata with deleted = true.
C6_NoDeletedDocument ==
    \A doc \in Listed(sync.docs) \cup Listed(fs.docs) \cup Listed(cacheFile.docs) :
        Resolves(doc.hash) /\ ~MetadataOf(doc.hash).deleted

\* A full sync over an index that holds a deleted document and another one
\* has returned the other one and written it to the cache.
C6_Witness ==
    /\ FullSyncDone
    /\ \E i \in 1..Len(sync.entries) :
          Resolves(sync.entries[i].hash) /\ MetadataOf(sync.entries[i].hash).deleted
    /\ sync.docs # <<>>
    /\ cacheFile.present /\ cacheFile.docs = sync.docs

\* The documents of the entries whose task met no failure and whose metadata
\* is not deleted, in index order.
RECURSIVE SurvivingDocuments(_)
SurvivingDocuments(i) ==
    IF i > Len(sync.entries) THEN <<>>
    ELSE (IF sync.results[i].failed \/ MetadataOf(sync.entries[i].hash).deleted
          THEN <<>>
          ELSE <<DocumentOf(sync.entries[i], MetadataOf(sync.entries[i].hash))>>)
         \o SurvivingDocuments(i + 1)

\* C7: a fetch or decode failure inside the task of one entry never fails the
\* sync (a sync that has spawned its tasks fails only after all have finished,
\* in the cache save), and the sync returns the document of every entry whose
\* task met no failure and whose metadata is not deleted.
C7_FailureRemovesOneDocument ==
    /\ sync.pc = "failed" => \A i \in 1..Len(sync.results) : sync.results[i].stage = "done"
    /\ FullSyncDone => sync.docs = SurvivingDocuments(1)

\* A full sync in which the task of one entry failed has returned Ok with the
\* document of another entry.
C7_Witness ==
    /\ FullSyncDone
    /\ \E i, j \in 1..Len(sync.results) :
          /\ sync.results[i].failed
          /\ sync.results[j].some
          /\ sync.docs = <<sync.results[j].doc>>

\* The lines of the index the sync read, after the version line.
IndexLines == Tail(TextOf(Fetch(sync.root_hash)).lines)

\* Every line of the index is an entry whose schema and metadata were fetched
\* and decoded, with deleted = false.
AllResolve ==
    /\ \A k \in 1..Len(IndexLines) : IndexLines[k].nf >= 5
    /\ \A i \in 1..Len(sync.results) : sync.results[i].some

\* Type, parent, version and pinned flag of docs[k] are those of the metadata
\* of the k-th index line.
FieldsFromMetadata(k) ==
    LET doc == sync.docs[k]
        meta == MetadataOf(IndexLines[k].hash)
    IN /\ doc.doc_type = (IF meta.type = "CollectionType" THEN "Collection" ELSE "Document")
       /\ doc.parent = meta.parent
       /\ doc.version = meta.version
       /\ doc.bookmarked = meta.pinned

\* C8 as stated: a full sync in which every entry resolves returns one
\* document per index line, with the line's id and the metadata's name, type,
\* parent, version and pinned flag.
C8_OneDocumentPerEntry ==
    (FullSyncDone /\ AllResolve) =>
        /\ Len(sync.docs) = Len(IndexLines)
        /\ \A k \in 1..Len(IndexLines) :
              /\ sync.docs[k].id = IndexLines[k].id
              /\ sync.docs[k].display_name = MetadataOf(IndexLines[k].hash).visibleName
              /\ FieldsFromMetadata(k)

IsUuid(id) == id[1] \in {"d", "n", "x", "D"}

LowerCase(id) == IF id[1] = "D" THEN <<"d", id[2]>> ELSE id

\* C8 amended: a full sync in which every entry resolves returns one document
\* per index line; its id is the line's id in canonical lower-case form when
\* that is a UUID and the nil UUID when it is not; its name is the metadata's
\* visibleName, or "Unknown" when that is empty; type, parent, version and
\* pinned flag are the metadata's.  An index without entries gives no document.
C8_OneDocumentPerEntryUuidOrNil ==
    (FullSyncDone /\ AllResolve) =>
        /\ Len(sync.docs) = Len(IndexLines)
        /\ \A k \in 1..Len(IndexLines) :
              LET id == IndexLines[k].id
                  name == MetadataOf(IndexLines[k].hash).visibleName
              IN /\ IsUuid(id) => sync.docs[k].id = LowerCase(id)
                 /\ ~IsUuid(id) => sync.docs[k].id = NilUuid
                 /\ name # "" => sync.docs[k].display_name = name
                 /\ name = "" => sync.docs[k].display_name = "Unknown"
                 /\ FieldsFromMetadata(k)

\* A full sync over a document and a pinned directory has returned both.
C8_Witness ==
    /\ FullSyncDone
    /\ AllResolve
    /\ Len(sync.docs) = 2
    /\ sync.docs[1].id = D1 /\ sync.docs[1].display_name = "a"
    /\ sync.docs[2].doc_type = "Collection" /\ sync.docs[2].bookmarked

\* C11: an index whose text has a line of fewer than five fields makes the
\* operation that parses it fail: no sync over such an index returns Ok.
C11_MalformedLineAbortsSync ==
    FullSyncDone => \A k \in 1..Len(IndexLines) : IndexLines[k].nf >= 5

AllHexValid(es) == \A i \in 1..Len(es) : HexValid(es[i].hash)

DistinctIds(es) == \A i, j \in 1..Len(es) : es[i].id = es[j].id => i = j

\* C9 as stated: for every list of entries with valid hex hashes and every
\* permutation of it, calculate_root_hash returns the same value for both.
C9_AnyListOrderIndependent ==
    (hashOut.done /\ AllHexValid(hashIn[1])) => hashOut.r1 = hashOut.r2

\* C9 amended: for every list of entries with valid hex hashes and pairwise
\* distinct ids, and every permutation of it, calculate_root_hash returns the
\* same value for both.
C9_DistinctIdsOrderIndependent ==
    (hashOut.done /\ AllHexValid(hashIn[1]) /\ DistinctIds(hashIn[1]))
        => (hashOut.r1.ok /\ hashOut.r1 = hashOut.r2)

\* Two entries with distinct ids, given in both orders, have been hashed.
C9_Witness ==
    /\ hashOut.done
    /\ Len(hashIn[1]) = 2
    /\ AllHexValid(hashIn[1])
    /\ DistinctIds(hashIn[1])
    /\ hashIn[1] # hashIn[2]
    /\ hashIn[1][1].hash # hashIn[1][2].hash
    /\ hashOut.r1.ok

NoColon(s) == \A i \in 1..Len(s) : s[i] # ":"

ColonFree(e) == NoColon(e.hash) /\ NoColon(e.type_id) /\ NoColon(e.id) /\ NoColon(e.unknown_count)

EntryRoundTrips ==
    (codecOut.done /\ codecIn.mode = "entry" /\ ColonFree(codecIn.entry))
        => (codecOut.parsed.ok /\ codecOut.parsed.entry = codecIn.entry)

FiveFieldLine == Len(Split(codecIn.line)) = 5

\* The size field is spelled as u64's Display spells it.
CanonicalSize == LET f == Split(codecIn.line)[5] IN U64Parses(f) /\ U64ToString(U64Parse(f)) = f

\* C10 as stated: parsing the formatted entry gives the entry back when its
\* fields hold no ':', and formatting a parsed five-field line gives the line back.
C10_RoundTripBothWays ==
    /\ EntryRoundTrips
    /\ (codecOut.done /\ codecIn.mode = "line" /\ FiveFieldLine /\ codecOut.parsed.ok)
          => codecOut.text = codecIn.line

\* C10 amended: parsing the formatted entry gives the entry back when its
\* fields hold no ':', and formatting a parsed five-field line gives the line
\* back when the line's size field is a canonical decimal number (no sign, no
\* leading zero).
C10_RoundTripCanonicalSize ==
    /\ EntryRoundTrips
    /\ (codecOut.done /\ codecIn.mode = "line" /\ FiveFieldLine /\ CanonicalSize)
          => (codecOut.parsed.ok /\ codecOut.text = codecIn.line)

\* An entry with four non-empty colon-free fields and a two-digit size has
\* made the round trip.
C10_Witness ==
    /\ codecOut.done
    /\ codecIn.mode = "entry"
    /\ ColonFree(codecIn.entry)
    /\ codecIn.entry.hash # <<>> /\ codecIn.entry.type_id # <<>>
    /\ codecIn.entry.id # <<>> /\ codecIn.entry.unknown_count # <<>>
    /\ codecIn.entry.size >= 10
    /\ codecOut.parsed.ok


(***************************************************************************)
(* Claims about the tree.                                                  *)
(***************************************************************************)

Built == tree.pc = "built"

DocIds == {tree.documents[i].id : i \in 1..Len(tree.documents)}

\* The documents have pairwise distinct ids, none of them the nil UUID.
DistinctDocIds ==
    /\ \A i, j \in 1..Len(tree.documents) : tree.documents[i].id = tree.documents[j].id => i = j
    /\ "nil" \notin DocIds

\* The node of document id is a child of node under.
Under(id, under) == [id |-> id, under |-> under] \in tree.placed

\* The ids whose chain of parents ends at the root or at the trash node: the
\* least set that holds the documents with an empty, trash or nil-UUID parent
\* and the documents whose parent is in the set.
RECURSIVE Anchored(_, _)
Anchored(S, n) ==
    IF n = 0 THEN S
    ELSE Anchored(S \cup {tree.documents[i].id : i \in {k \in 1..Len(tree.documents) :
                              tree.documents[k].parent \in {"", "trash", "nil"} \cup S}}, n - 1)

AnchoredIds == Anchored({}, Len(tree.documents))

\* C12 as stated: in the built tree a document with an empty parent is a child
\* of root, a document whose parent is the id of another document of the list
\* is a child of that document's node, and a document whose parent is the id of
\* no document is a child of root.
C12_ChildOfItsParent ==
    (Built /\ DistinctDocIds) =>
        \A i \in 1..Len(tree.documents) :
            LET d == tree.documents[i] IN
            /\ d.parent = "" => Under(d.id, "/")
            /\ (d.parent \in DocIds /\ d.parent # d.id) => Under(d.id, d.parent)
            /\ (d.parent \notin DocIds \cup {"", "trash"}) => Under(d.id, "/")

\* C12 amended: for a list of pairwise distinct ids other than the nil UUID, a
\* document with an empty parent is a child of root; a document whose parent
\* is a document whose own chain of parents ends at the root or the trash
\* node is a child of that document's node; and a document whose chain of
\* parents ends at an id of no document, or never ends, is a child of root.
C12_ChildOfItsAnchoredParent ==
    (Built /\ DistinctDocIds) =>
        \A i \in 1..Len(tree.documents) :
            LET d == tree.documents[i] IN
            /\ d.parent = "" => Under(d.id, "/")
            /\ d.parent \in AnchoredIds => Under(d.id, d.parent)
            /\ (d.parent \notin AnchoredIds \cup {"", "trash"}) => Under(d.id, "/")

\* The chain a, b in a, c in b has been built as root, a, b, c.
C12_Witness ==
    /\ Built
    /\ tree.documents = <<[id |-> "a", parent |-> ""], [id |-> "b", parent |-> "a"],
                          [id |-> "c", parent |-> "b"]>>
    /\ tree.placed = {[id |-> "a", under |-> "/"], [id |-> "b", under |-> "a"],
                      [id |-> "c", under |-> "b"]}

\* C13: the built tree has one node for every document of the list.
C13_EveryDocumentIsANode ==
    Built => /\ Cardinality(tree.placed) = Len(tree.documents)
             /\ \A i \in 1..Len(tree.documents) :
                    \E p \in tree.placed : p.id = tree.documents[i].id

\* The pass of the loop before its end placed nothing, or nothing remained.
LoopEndsWithoutProgress ==
    (tree.pc = "while" /\ tree'.pc = "built") =>
        /\ tree.remaining = {} \/ ~tree.progress
        /\ \A id \in tree.remaining : [id |-> id, under |-> "/"] \in tree'.placed
        /\ tree'.remaining = {}

\* C14: build comes to its end for every list; the loop ends after a pass
\* that placed no document, or with nothing remaining, and the documents that
\* remain then become children of root.
C14_BuildTerminates ==
    /\ <>Built
    /\ [][LoopEndsWithoutProgress]_vars

\* A list with a cycle of parents has been built, both documents under root.
C14_Witness ==
    /\ Built
    /\ tree.documents = <<[id |-> "a", parent |-> "b"], [id |-> "b", parent |-> "a"]>>
    /\ tree.placed = {[id |-> "a", under |-> "/"], [id |-> "b", under |-> "/"]}

\* C15: whenever no build is under way the tree has the trash node under
\* root, and every document whose parent is the trash sentinel is a child of it.
C15_TrashNodeAlways ==
    tree.pc \in {"new", "built"} =>
        /\ tree.trash
        /\ \A n \in tree.nodes : n.parent = "trash" => Under(n.id, "trash")


(***************************************************************************)
(* Claims about the root-index modifiers.                                  *)
(***************************************************************************)

\* The lines of the index blob stored under hash h.
LinesAt(h) == TextOf(Fetch(h)).lines

\* The commits made by operations of the given kind.
CommitsOf(kind) ==
    {k \in 1..Len(commits) : commits[k].by \in Ops /\ ops[commits[k].by].kind = kind}

\* The operation in slot o is a delete_entry that has read a root index in
\* which no entry has its document's id.
DeleteOfMissing(o) ==
    /\ ops[o].kind = "delete"
    /\ ops[o].attempts > 0
    /\ Stored(ops[o].current_root_hash)
    /\ \A i \in 2..Len(LinesAt(ops[o].current_root_hash)) :
          LinesAt(ops[o].current_root_hash)[i].id # ops[o].doc_id

\* A delete_entry of a missing document leaves the call that fetched the index
\* with Err, and the step uploads nothing and keeps the root pointer.
MissingDeleteStep ==
    \A o \in Ops :
        (DeleteOfMissing(o) /\ ops[o].pc = "m_fetch_root" /\ ops'[o] # ops[o]) =>
            /\ ops'[o].pc = "failed"
            /\ ops'[o].err \in {"not in root index", "transport"}
            /\ blobs' = blobs
            /\ root' = root

\* C16: a delete_entry whose document has no entry in the root index it has
\* just read returns the not-found error from the modifier: it never reaches
\* an upload, it makes no commit, and the step that fails changes neither the
\* blob store nor the root pointer.
C16_DeleteOfMissingFails ==
    /\ [](\A o \in Ops : DeleteOfMissing(o) =>
            /\ ops[o].pc \in {"m_fetch_root", "failed"}
            /\ ops[o].pc = "failed" => ops[o].at = "m_fetch_root"
            /\ \A k \in 1..Len(commits) : commits[k].by # o)
    /\ [][MissingDeleteStep]_vars

\* A delete_entry has failed with the not-found error after another writer
\* removed its document's entry.
C16_Witness ==
    \E o \in Ops : /\ DeleteOfMissing(o)
                   /\ ops[o].pc = "failed"
                   /\ ops[o].err = "not in root index"
                   /\ root.hash = ops[o].current_root_hash


\* The index read and the index committed by commit k, and its operation.
OldLines(k) == LinesAt(commits[k].old)

NewLines(k) == LinesAt(commits[k].new)

OpOf(k) == ops[commits[k].by]

\* A commit starts from the index its operation read, and the last commit's
\* index is the one the root pointer names.
CommitFromRead(k) ==
    /\ commits[k].old = OpOf(k).current_root_hash
    /\ Stored(commits[k].old) /\ Stored(commits[k].new)
    /\ k = Len(commits) => root.hash = commits[k].new

\* Sequence new is sequence old without its line i.
Without(old, i, new) ==
    /\ Len(new) = Len(old) - 1
    /\ \A j \in 1..Len(new) : new[j] = IF j < i THEN old[j] ELSE old[j + 1]

\* C17: the index a successful delete_entry commits is the index it read
\* without the entry of its document: one line less, every other line in its
\* place and unchanged, and no entry with the document's id.
C17_DeleteRemovesOneEntry ==
    \A k \in CommitsOf("delete") :
        /\ CommitFromRead(k)
        /\ \E i \in 2..Len(OldLines(k)) :
              /\ OldLines(k)[i].id = commits[k].target
              /\ Without(OldLines(k), i, NewLines(k))
        /\ \A j \in 2..Len(NewLines(k)) : NewLines(k)[j].id # commits[k].target

\* A delete_entry of the first of two entries has returned Ok, and the other
\* entry is in the index at the root pointer.
C17_Witness ==
    \E o \in Ops :
        /\ ops[o].kind = "delete" /\ ops[o].pc = "done" /\ ops[o].doc_id = D1
        /\ commits[Len(commits)].by = o
        /\ LinesAt(ops[o].current_root_hash) = <<VersionLine, EntryD1, EntryD2>>
        /\ LinesAt(root.hash) = <<VersionLine, EntryD2>>

\* C18: the index a successful rename_entry commits has as many lines as the
\* index it read and differs from it in the entry of its document only; that
\* entry keeps its id, type tag and count and has the hash and the byte size
\* of the schema the operation uploaded.
C18_RenameReplacesOneEntry ==
    \A k \in CommitsOf("rename") :
        /\ CommitFromRead(k)
        /\ Len(NewLines(k)) = Len(OldLines(k))
        /\ \E i \in 2..Len(OldLines(k)) :
              /\ OldLines(k)[i].id = commits[k].target
              /\ \A j \in 1..Len(OldLines(k)) : j # i => NewLines(k)[j] = OldLines(k)[j]
              /\ NewLines(k)[i].id = OldLines(k)[i].id
              /\ NewLines(k)[i].type = OldLines(k)[i].type
              /\ NewLines(k)[i].count = OldLines(k)[i].count
              /\ NewLines(k)[i].hash = compute_hash(OpOf(k).new_doc_schema)
              /\ NewLines(k)[i].size = ByteLen(OpOf(k).new_doc_schema)
              /\ Stored(NewLines(k)[i].hash)

\* A rename_entry of the directory has returned Ok.
C18_Witness ==
    \E o \in Ops :
        /\ ops[o].kind = "rename" /\ ops[o].pc = "done" /\ ops[o].doc_id = D2
        /\ commits[Len(commits)].by = o
        /\ LinesAt(root.hash)[3].type = "CollectionType"
        /\ LinesAt(root.hash)[3].hash # EntryD2.hash
        /\ LinesAt(root.hash)[2] = EntryD1

\* C19: the index a successful upload_document commits is the index it read
\* followed by one new entry, whose id is the id of no entry read and whose
\* hash names the stored schema of four entries the operation uploaded.
C19_UploadAppendsOneEntry ==
    \A k \in CommitsOf("create") :
        /\ CommitFromRead(k)
        /\ Len(NewLines(k)) = Len(OldLines(k)) + 1
        /\ \A j \in 1..Len(OldLines(k)) :
              /\ NewLines(k)[j] = OldLines(k)[j]
              /\ OldLines(k)[j].id # commits[k].target
        /\ LET e == NewLines(k)[Len(NewLines(k))] IN
              /\ e.id = commits[k].target
              /\ e.hash = compute_hash(OpOf(k).new_doc_schema)
              /\ Stored(e.hash)
              /\ Fetch(e.hash) = OpOf(k).new_doc_schema
              /\ Len(LinesAt(e.hash)) = 5

\* An upload_document has returned Ok after the two entries of the start.
C19_Witness ==
    \E o \in Ops :
        /\ ops[o].kind = "create" /\ ops[o].pc = "done"
        /\ commits[Len(commits)].by = o
        /\ Len(LinesAt(root.hash)) = 4
        /\ LinesAt(root.hash)[2] = EntryD1 /\ LinesAt(root.hash)[3] = EntryD2
        /\ LinesAt(root.hash)[4].id = NewDocId(o)


(***************************************************************************)
(* Claims about mv.                                                        *)
(***************************************************************************)

\* The metadata named by the first metadata line of a schema.
MetadataIn(lines) == Fetch(lines[FirstMetadataLine(lines)].hash).meta

\* The schema a move uploaded is the schema it read with a new metadata line,
\* and the metadata it names has the destination as parent and the new name
\* when one was given, the old name otherwise.
MovedSchema(op) ==
    LET old == LinesAt(op.doc_hash)
        new == op.new_doc_schema.lines
        idx == FirstMetadataLine(old)
    IN /\ Len(new) = Len(old)
       /\ \A j \in 1..Len(old) : j # idx => new[j] = old[j]
       /\ Stored(new[idx].hash)
       /\ Stored(compute_hash(op.new_doc_schema))
       /\ MetadataIn(new).parent = op.dest.node
       /\ MetadataIn(new).visibleName =
             IF op.dest.found THEN MetadataIn(old).visibleName ELSE op.dest.name

\* The commit of a move replaces the entry of its document and no other.
MoveCommit(k) ==
    /\ CommitFromRead(k)
    /\ Len(NewLines(k)) = Len(OldLines(k))
    /\ \E i \in 2..Len(OldLines(k)) :
          /\ OldLines(k)[i].id = commits[k].target
          /\ \A j \in 1..Len(OldLines(k)) : j # i => NewLines(k)[j] = OldLines(k)[j]
          /\ NewLines(k)[i].id = OldLines(k)[i].id
          /\ NewLines(k)[i].type = OldLines(k)[i].type
          /\ NewLines(k)[i].hash = compute_hash(OpOf(k).new_doc_schema)
    /\ MovedSchema(OpOf(k))

\* A destination that is a node and not a directory.
OntoDocument(op) == op.kind = "move" /\ op.dest.found /\ ~IsDirectory(op.dest.node)

\* C20: a move commits an index that differs from the index it read in the
\* entry of its document only, and that entry names an uploaded schema whose
\* metadata has the destination's id as parent and the new name when one is
\* given; a move onto a node that is not a directory has failed in mv, has
\* made no request and no commit, and the step that fails it changes nothing
\* of the remote.
C20_MoveSetsParent ==
    /\ [](\A k \in CommitsOf("move") : MoveCommit(k))
    /\ [](\A o \in Ops : OntoDocument(ops[o]) =>
              /\ ops[o].pc = "failed" /\ ops[o].at = "mv"
              /\ ops[o].attempts = 0
              /\ \A k \in 1..Len(commits) : commits[k].by # o)
    /\ [][\A o \in Ops : (ops[o].pc = "idle" /\ OntoDocument(ops'[o])) =>
              (root' = root /\ blobs' = blobs /\ commits' = commits)]_vars

\* A move of the document into the directory has returned Ok, and a move
\* onto a document has failed.
C20_Witness ==
    \E o, q \in Ops :
        /\ ops[o].kind = "move" /\ ops[o].pc = "done"
        /\ ops[o].doc_id = D1 /\ ops[o].dest = [found |-> TRUE, node |-> D2, name |-> ""]
        /\ commits[Len(commits)].by = o
        /\ MetadataIn(LinesAt(LinesAt(root.hash)[2].hash)).parent = D2
        /\ MetadataIn(LinesAt(LinesAt(root.hash)[2].hash)).visibleName = "a"
        /\ OntoDocument(ops[q]) /\ ops[q].err = "exists"


(***************************************************************************)
(* Claims about the client's start.                                        *)
(***************************************************************************)

\* The cache file is absent, unreadable or not the JSON of a cache.
NoUsableCache == ~cacheFile.present \/ cacheFile.content # "json"

\* from_token returns a client, and with no usable cache file the client's
\* cache is empty.
StartSucceeds ==
    (sync.pc = "no client" /\ sync' # sync) =>
        /\ sync'.pc = "idle"
        /\ NoUsableCache => fs' = EmptyFs

\* C21: from_token returns a client whatever the cache file is, with an empty
\* cache (hash "", no documents) when the file is absent, unreadable or not
\* valid JSON; and a sync of a client whose cache is empty is no cache hit.
C21_StartWithoutCache ==
    /\ [][StartSucceeds]_vars
    /\ [](fs.current_hash = Lit("") =>
             ~sync.hit /\ (sync.pc = "idle" => ~CacheHit(root.hash)))

\* A client started over a file that is not valid JSON has begun a full sync.
C21_Witness ==
    /\ cacheFile.present /\ cacheFile.content = "garbage"
    /\ fs = EmptyFs
    /\ sync.calls = 1
    /\ sync.pc = "gf_get_root"


(***************************************************************************)
(* Claims about normalize_path.                                            *)
(***************************************************************************)

\* The names left when the pieces are read from the left: '.' and the empty
\* piece are dropped, '..' removes the name before it, if there is one.
RECURSIVE Resolved(_, _, _)
Resolved(names, pieces, i) ==
    IF i > Len(pieces) THEN names
    ELSE LET piece == pieces[i] IN
         Resolved(IF piece \in {"", "."} THEN names
                  ELSE IF piece = ".."
                       THEN (IF names = <<>> THEN names ELSE SubSeq(names, 1, Len(names) - 1))
                  ELSE Append(names, piece),
                  pieces, i + 1)

\* The absolute path of path resolved against cwd.
ResolvedPath(path, cwd) ==
    <<"/">> \o Resolved(<<>>, (IF path.abs THEN <<>> ELSE cwd.parts) \o path.parts, 1)

\* C22 as stated: for every path and every absolute working directory the
\* result is the path resolved against the working directory.
C22_NormalizeResolves ==
    norm.done => norm.out = ResolvedPath(norm.path, norm.cwd)

\* C22 amended: for every path and every absolute working directory that has
\* no '..' the result is the path resolved against the working directory.
C22_NormalizeResolvesCleanCwd ==
    (norm.done /\ \A i \in 1..Len(norm.cwd.parts) : norm.cwd.parts[i] # "..") =>
        norm.out = ResolvedPath(norm.path, norm.cwd)

\* "../../a" in "/a/b" has given "/a".
C22_Witness ==
    /\ norm.done
    /\ norm.path = [abs |-> FALSE, parts |-> <<"..", "..", "a">>]
    /\ norm.cwd = [abs |-> TRUE, parts |-> <<"a", "b">>]
    /\ norm.out = <<"/", "a">>


(***************************************************************************)
(* Claims about what a write operation sends.                              *)
(***************************************************************************)

\* The step is the root-pointer read of the operation in slot o.
ReadsRoot(o) == ops[o].pc = "m_get_root" /\ ops'[o].pc = "m_fetch_root"

\* The operation takes the generation the remote holds when it reads the root
\* pointer, keeps it until it returns, and sends it in its update.
GenerationKept ==
    \A o \in Ops :
        /\ ReadsRoot(o) => ops'[o].current_generation = root.generation
        /\ (ops[o].attempts > 0 /\ ~ReadsRoot(o)) =>
              ops'[o].current_generation = ops[o].current_generation
        /\ (ops[o].pc = "m_update_root" /\ ops'[o].sent # <<>>) =>
              ops'[o].sent = <<ops[o].current_generation>>

\* C23: the generation a write operation sends in its root-pointer update is
\* the generation its own read of the root pointer returned, whatever other
\* writers have committed in between.
C23_SendsGenerationRead ==
    /\ [][GenerationKept]_vars
    /\ [](\A o \in Ops : ops[o].sent # <<>> =>
             (ops[o].attempts = 1 /\ ops[o].sent = <<ops[o].current_generation>>))

\* An operation has sent generation 1 after another writer moved the remote
\* to generation 2.
C23_Witness ==
    \E o \in Ops :
        /\ ops[o].sent = <<1>>
        /\ ops[o].current_generation = 1
        /\ root.generation = 2
        /\ ops[o].err = "conflict"


(***************************************************************************)
(* Claims about the hashes and the order of what is written.               *)
(***************************************************************************)

\* The order of the UUID strings the ids stand for: the first document, the
\* ids Uuid::new_v4 draws, the other documents, the other writers' documents.
IdRank(id) ==
    IF id = D1 THEN 0
    ELSE IF id[1] = "n" THEN id[2]
    ELSE IF id[1] = "d" THEN 100 + id[2]
    ELSE 200 + id[2]

\* The lines after the version line are in ascending order of id.
SortedById(lines) ==
    \A i, j \in 2..Len(lines) : i < j => IdRank(lines[i].id) < IdRank(lines[j].id)

\* The entries of lines in ascending order of id (sort_by(|a, b| a.id.cmp(&b.id))).
RECURSIVE EntriesById(_)
EntriesById(entries) ==
    IF entries = {} THEN <<>>
    ELSE LET first == CHOOSE e \in entries : \A f \in entries : IdRank(e.id) <= IdRank(f.id)
         IN <<first>> \o EntriesById(entries \ {first})

\* IndexEntry::calculate_root_hash over the entries of an index or a schema:
\* SHA-256 of the decoded hashes of the entries, sorted by id, 32 bytes for
\* each.  The text of the same entries has more than 64 bytes for each and
\* the version line, so the bytes digested are those of no text blob.
MerkleRootOf(lines) ==
    compute_hash([kind |-> "hashes",
                  lines |-> [i \in 1..(Len(lines) - 1) |->
                                EntriesById({lines[k] : k \in 2..Len(lines)})[i].hash],
                  meta |-> NoMeta, raw |-> 0])

\* C24: the hash a write operation commits, and stores its new root index
\* under, is the Merkle root hash of the entries of that index.
C24_RootHashIsMerkleRoot ==
    \A k \in 1..Len(commits) :
        commits[k].by \in Ops => commits[k].new = MerkleRootOf(NewLines(k))

\* C25: a write operation that reads an index in ascending order of id
\* commits an index in ascending order of id.
C25_IndexStaysSorted ==
    \A k \in 1..Len(commits) :
        (commits[k].by \in Ops /\ SortedById(OldLines(k))) => SortedById(NewLines(k))

\* The entry of the commit's document in the index it committed.
TargetEntry(k) ==
    NewLines(k)[CHOOSE i \in 2..Len(NewLines(k)) : NewLines(k)[i].id = commits[k].target]

\* C26: after a create or a rename the hash of the document's entry in the
\* root index is the Merkle root hash of the entries of the document's schema.
C26_EntryHashIsSchemaMerkleRoot ==
    \A k \in CommitsOf("create") \cup CommitsOf("rename") :
        TargetEntry(k).hash = MerkleRootOf(LinesAt(TargetEntry(k).hash))


\* C27: every blob of the store is kept under the SHA-256 digest of its own
\* bytes, the blobs a write operation has uploaded included: content, page
\* data, file, metadata, schema and root index.
C27_KeyIsDigestOfBytes ==
    \A b \in blobs : b.key = [lit |-> "sha256", of |-> b.data]

\* The digest of data names data in the store.
Holds(data) == [key |-> [lit |-> "sha256", of |-> data], data |-> data] \in blobs

\* An upload_document has stored its five blobs and its root index, and a
\* rename_entry its metadata, schema and root index.
C27_Witness ==
    \E o \in Ops :
        /\ ops[o].pc = "done"
        /\ Holds(TextBlob(LinesAt(root.hash)))
        /\ commits[Len(commits)].by = o
        /\ Holds(ops[o].new_doc_schema)
        /\ \A i \in 2..Len(ops[o].new_doc_schema.lines) :
              \E b \in blobs : b.key = ops[o].new_doc_schema.lines[i].hash
        /\ ops[o].kind = "create"

\* C28: the root pointer names a stored index blob, and every entry of that
\* index names a stored schema blob: an operation commits only what it has
\* uploaded.
C28_RootNamesUploadedBlobs ==
    /\ Stored(root.hash)
    /\ \A i \in 2..Len(LinesAt(root.hash)) : Stored(LinesAt(root.hash)[i].hash)

\* A rename_entry has committed: the index at the pointer is the one it
\* uploaded and its entry names the schema it uploaded.
C28_Witness ==
    \E o \in Ops :
        /\ ops[o].kind = "rename" /\ ops[o].pc = "done"
        /\ commits[Len(commits)].by = o
        /\ root.hash = commits[Len(commits)].new
        /\ \E i \in 2..Len(LinesAt(root.hash)) :
              /\ LinesAt(root.hash)[i].hash = compute_hash(ops[o].new_doc_schema)
              /\ Fetch(LinesAt(root.hash)[i].hash) = ops[o].new_doc_schema


(***************************************************************************)
(* Claims about the tasks of a sync and the hash it saves.                 *)
(***************************************************************************)

\* get_files leaves its join only when every task has finished.
ReturnsAfterAllTasks ==
    (sync.pc = "gf_tasks" /\ sync'.pc # "gf_tasks") =>
        \A i \in 1..Len(sync.results) : sync.results[i].stage = "done"

\* C29: a full sync returns after every task has finished, and what it
\* returns is the documents of the entries whose tasks returned one, the same
\* in whatever order the tasks finished.
C29_CompletionOrderIrrelevant ==
    /\ [][ReturnsAfterAllTasks]_vars
    /\ [](FullSyncDone =>
             /\ Len(sync.finished) = Len(sync.entries)
             /\ Listed(sync.docs) =
                   {sync.results[i].doc : i \in {k \in 1..Len(sync.results) : sync.results[k].some}}
             /\ sync.docs = SurvivingDocuments(1))

\* The task of the second entry finished before the task of the first, and
\* the sync has returned both documents, the first entry's first.
C29_Witness ==
    /\ FullSyncDone
    /\ sync.finished = <<2, 1>>
    /\ Len(sync.docs) = 2
    /\ sync.docs[1].hash = sync.entries[1].hash
    /\ sync.docs[2].hash = sync.entries[2].hash

\* Every document of docs is, in order, a document of the index under h.
BuiltFrom(docs, h) ==
    /\ Stored(h)
    /\ \A k \in 1..Len(docs) :
          \E i \in 2..Len(LinesAt(h)) :
              /\ LinesAt(h)[i].hash = docs[k].hash
              /\ UuidParse(LinesAt(h)[i].id) = docs[k].id

\* C30: after a list_files that made a full sync and returned Ok, the hash of
\* the cache, in memory and in the file, is the hash of the index blob the
\* documents of the cache were built from, whatever other writers committed
\* while the sync ran.
C30_CacheHashNamesIndexRead ==
    FullSyncDone =>
        /\ fs.current_hash = sync.root_hash
        /\ cacheFile.hash = fs.current_hash /\ cacheFile.docs = fs.docs
        /\ fs.docs = sync.docs
        /\ sync.entries = ParseIndex(LinesAt(fs.current_hash), 2)
        /\ BuiltFrom(fs.docs, fs.current_hash)

\* Another writer committed between the two reads of the root pointer and
\* again before the sync returned: the cache has the hash of the second read.
C30_Witness ==
    /\ FullSyncDone
    /\ sync.remote_hash # sync.root_hash
    /\ fs.current_hash = sync.root_hash
    /\ fs.docs # <<>>
    /\ Len(commits) = 1


(***************************************************************************)
(* Claims about what the cache holds.                                      *)
(***************************************************************************)

\* The lines of the index under h whose document a sync without failures
\* returns: entries whose schema and metadata are stored, with deleted = false.
LiveLines(h) ==
    {i \in 2..Len(LinesAt(h)) :
        /\ LinesAt(h)[i].nf >= 5
        /\ Resolves(LinesAt(h)[i].hash)
        /\ ~MetadataOf(LinesAt(h)[i].hash).deleted}

\* C31: whenever the cache has a hash, its document list has the document of
\* every entry of the index under that hash that is not deleted, so that an
\* answer from the cache is the answer of a full sync.
C31_CacheHoldsEveryDocument ==
    (fs.current_hash # Lit("") /\ Stored(fs.current_hash)) =>
        \A i \in LiveLines(fs.current_hash) :
            \E doc \in Listed(fs.docs) : doc.hash = LinesAt(fs.current_hash)[i].hash


\* C32: a call of list_files that returns an error leaves the cache in memory
\* (its hash and its document list) as it was before the call.
C32_FailedSyncKeepsCache ==
    [][(sync' # sync /\ sync'.pc = "failed") => fs' = fs]_vars


\* C33: the cache record, in memory and in the file, changes only in the step
\* in which a full sync saves it and list_files returns Ok; no step of a
\* create, delete or rename operation changes it.
C33_OnlySuccessfulSyncWritesCache ==
    [][/\ (fs' # fs \/ cacheFile' # cacheFile) =>
              (sync.pc = "gf_tasks" /\ sync'.pc = "done" /\ ~sync'.hit)
       /\ ops' # ops => (fs' = fs /\ cacheFile' = cacheFile)]_vars


(***************************************************************************)
(* Claims about rename_entry.                                              *)
(***************************************************************************)

\* Schema new keeps every line of schema old that is no metadata line.
KeepsOtherLines(old, new) ==
    /\ Len(new) = Len(old)
    /\ \A j \in 1..Len(old) : ~ContainsMetadata(old[j]) => new[j] = old[j]

\* C34: the schema a successful rename_entry commits for its document keeps
\* the sub-entries, other than the metadata, of the schema that the index read
\* in the same transaction names for that document.
C34_RenameBuildsOnIndexRead ==
    \A k \in CommitsOf("rename") :
        \A i \in 2..Len(OldLines(k)) :
            OldLines(k)[i].id = commits[k].target =>
                KeepsOtherLines(LinesAt(OldLines(k)[i].hash), LinesAt(NewLines(k)[i].hash))


\* The rename operations that have composed their new schema.
Recomposed == {o \in Ops : ops[o].kind = "rename" /\ ops[o].new_doc_schema # NoBlob}

\* The schema a rename fetched, its first metadata line and that line's blob.
FetchedLines(o) == LinesAt(ops[o].doc_hash)

MetaIdx(o) ==
    CHOOSE i \in 1..Len(FetchedLines(o)) :
        /\ ContainsMetadata(FetchedLines(o)[i])
        /\ \A j \in 1..(i - 1) : ~ContainsMetadata(FetchedLines(o)[j])

FetchedMeta(o) == Fetch(FetchedLines(o)[MetaIdx(o)].hash).meta

\* The metadata blob the new schema of o names in the place of the old one.
RenamedBlob(o) == Fetch(ops[o].new_doc_schema.lines[MetaIdx(o)].hash)

\* The new schema of o is the fetched one with its first metadata line
\* replaced by a line with the uploaded metadata's hash and size.
OneLineReplaced(o) ==
    LET old == FetchedLines(o)
        new == ops[o].new_doc_schema.lines
        i == MetaIdx(o)
    IN /\ Len(new) = Len(old)
       /\ \A j \in 1..Len(old) : j # i => new[j] = old[j]
       /\ Stored(new[i].hash)
       /\ RenamedBlob(o).kind = "json"
       /\ new[i] = [old[i] EXCEPT !.hash = compute_hash(RenamedBlob(o)),
                                  !.size = ByteLen(RenamedBlob(o))]
       /\ new[1] = VersionLine

\* C35 as stated: the new metadata has the new name and a version one above
\* the old one, and the new schema differs from the old in its first metadata
\* line only.
C35_RecomposeBumpsVersion ==
    \A o \in Recomposed :
        /\ OneLineReplaced(o)
        /\ RenamedBlob(o).meta.visibleName = ops[o].new_name
        /\ RenamedBlob(o).meta.versioned
        /\ RenamedBlob(o).meta.version = FetchedMeta(o).version + 1


\* C36: the metadata a rename uploads has every key the rename does not set
\* (type, parent, pinned, deleted and the keys the client does not know) with
\* the value of the metadata it fetched.
C36_RenameKeepsOtherKeys ==
    \A o \in Recomposed :
        /\ RenamedBlob(o).meta.type = FetchedMeta(o).type
        /\ RenamedBlob(o).meta.parent = FetchedMeta(o).parent
        /\ RenamedBlob(o).meta.pinned = FetchedMeta(o).pinned
        /\ RenamedBlob(o).meta.deleted = FetchedMeta(o).deleted
        /\ RenamedBlob(o).meta.extra = FetchedMeta(o).extra

\* A rename of metadata with a key the client does not know has uploaded its
\* new metadata, with the new name and that key.
C36_Witness ==
    \E o \in Recomposed :
        /\ FetchedMeta(o).extra = "tags"
        /\ FetchedMeta(o).visibleName = "a"
        /\ RenamedBlob(o).meta.visibleName = "r"
        /\ RenamedBlob(o).meta.extra = "tags"

\* The schema the rename in slot o is about to fetch has no metadata line.
NoMetadataLine(o) ==
    /\ ops[o].kind = "rename"
    /\ Stored(ops[o].doc_hash)
    /\ \A i \in 1..Len(FetchedLines(o)) : ~ContainsMetadata(FetchedLines(o)[i])

\* The rename in slot o has returned the error of a schema without metadata.
FailedNoMetadata(o) == ops[o].pc = "failed" /\ ops[o].err = "no metadata"

\* C37: a rename that fetches a schema without a metadata line returns an
\* error in that step, and has then uploaded no blob and read no root pointer,
\* and the step leaves the blob store and the root pointer as they are; a
\* rename whose schema has metadata lines fetches the metadata of the first.
C37_NoMetadataFailsFirst ==
    /\ [][\A o \in Ops :
             (/\ ops[o].pc = "r_fetch_schema" /\ ops'[o] # ops[o]
              /\ ops'[o].err # "transport"
              /\ NoMetadataLine(o))
                => (/\ ops'[o].pc = "failed" /\ ops'[o].err = "no metadata"
                    /\ blobs' = blobs /\ root' = root /\ commits' = commits)]_vars
    /\ [](\A o \in Ops :
             FailedNoMetadata(o) =>
                 /\ NoMetadataLine(o)
                 /\ ops[o].at = "r_fetch_schema"
                 /\ ops[o].attempts = 0
                 /\ ops[o].new_doc_schema = NoBlob
                 /\ \A k \in 1..Len(commits) : commits[k].by # o)
    /\ [](\A o \in Ops :
             ops[o].pc = "r_fetch_meta" =>
                 ops[o].metadata_hash = FetchedLines(o)[MetaIdx(o)].hash)

\* A rename of the schema without a metadata line has failed, and one of the
\* schema with two metadata lines has fetched the first one's metadata.
C37_Witness ==
    /\ \E o \in Ops : FailedNoMetadata(o)
    /\ \E o \in Ops :
          /\ ops[o].pc = "r_fetch_meta"
          /\ Len(FetchedLines(o)) = 4
          /\ ops[o].metadata_hash = compute_hash(JsonBlob(MetaD1))


(***************************************************************************)
(* Claims about the retry after an unauthorized sync.                      *)
(***************************************************************************)

\* refetch_if_unauthorized has returned.
Refetched == auth.pc \in {"ok", "err"}

\* C38: a first sync that fails unauthorized is followed by one refresh of the
\* token, one write of the token file and one more sync; the error of that
\* second sync is returned, and so is a first error that is not unauthorized,
\* with no refresh and no second sync.
C38_RetriesOnceAfterUnauthorized ==
    /\ auth.syncs <= 2 /\ auth.refreshes <= 1 /\ auth.writes <= 1
    /\ (auth.pc = "retry" \/ auth.second # "") =>
          (auth.first = "unauthorized" /\ auth.refreshes = 1 /\ auth.writes = 1)
    /\ auth.pc = "retry" => auth.file
    /\ (Refetched /\ auth.first = "unauthorized" /\ auth.err \notin {"refresh", "io"}) =>
          (auth.syncs = 2 /\ auth.refreshes = 1 /\ auth.writes = 1)
    /\ (Refetched /\ auth.second \notin {"", "ok"}) =>
          (auth.pc = "err" /\ auth.err = auth.second /\ auth.syncs = 2 /\ auth.refreshes = 1)
    /\ (auth.first \notin {"", "ok", "unauthorized"}) =>
          (auth.pc = "err" /\ auth.err = auth.first /\ auth.syncs = 1 /\ auth.refreshes = 0
           /\ auth.writes = 0)
    /\ auth.pc = "ok" => (auth.first = "ok" \/ auth.second = "ok")

\* The first sync failed unauthorized, the token was refreshed and written,
\* the second sync failed unauthorized too, and that error was returned.
C38_Witness ==
    /\ auth.pc = "err"
    /\ auth.first = "unauthorized" /\ auth.second = "unauthorized"
    /\ auth.err = "unauthorized"
    /\ auth.syncs = 2 /\ auth.refreshes = 1 /\ auth.writes = 1


(***************************************************************************)
(* Claims about the order of the documents handed to build.                *)
(***************************************************************************)

\* The documents of the list, as a set.
DocSet == {tree.documents[i] : i \in 1..Len(tree.documents)}

\* The ids of DocSet whose chain of parents ends at the root or at the trash
\* node, by n rounds from S.
RECURSIVE AnchoredOf(_, _)
AnchoredOf(S, n) ==
    IF n = 0 THEN S
    ELSE AnchoredOf(S \cup {d.id : d \in {e \in DocSet : e.parent \in {"", "trash", "nil"} \cup S}},
                    n - 1)

\* The tree of a set of documents: the node each one is a child of.
TreeOfSet ==
    LET anchored == AnchoredOf({}, Cardinality(DocSet)) IN
    {[id |-> d.id,
      under |-> IF d.parent = "trash" THEN "trash"
                ELSE IF d.parent \in anchored /\ d.parent # "nil" THEN d.parent
                ELSE "/"] : d \in DocSet}

\* C39: for a list of pairwise distinct ids the built tree is the tree of the
\* set of its documents: the same for every order of the list and for every
\* order in which the loop visits the ids.
C39_TreeOfTheSet ==
    (Built /\ Cardinality(DocSet) = Len(tree.documents)) => tree.placed = TreeOfSet

\* The chain c in b, b in a, a under root, listed child first, has been built
\* as root, a, b with the nil-UUID document under root.
C39_Witness ==
    /\ Built
    /\ tree.documents = <<[id |-> "b", parent |-> "a"], [id |-> "nil", parent |-> "b"],
                          [id |-> "a", parent |-> ""]>>
    /\ tree.placed = {[id |-> "a", under |-> "/"], [id |-> "b", under |-> "a"],
                      [id |-> "nil", under |-> "b"]}


(***************************************************************************)
(* Claims about cd.                                                        *)
(***************************************************************************)

\* The names from the root down to the node of document i of the cached list.
RECURSIVE NamesTo(_, _)
NamesTo(id, n) ==
    IF id = EmptyId \/ n = 0 THEN <<>>
    ELSE Append(NamesTo(NodeDocument(id).parent, n - 1), NodeDocument(id).display_name)

\* The path is "/" or the names down to a directory of the tree.
NamesADirectory(components) ==
    /\ components # <<>> /\ components[1] = "/"
    /\ \/ Len(components) = 1
       \/ \E i \in 1..Len(fs.docs) :
             /\ fs.docs[i].doc_type = "Collection"
             /\ NamesTo(fs.docs[i].id, Len(fs.docs)) = Tail(components)

\* C40: a cd changes the current path only when it returns Ok, and then to a
\* path that resolves to a directory; a cd that returns an error leaves it as
\* it was; the current path always names a directory of the tree.
C40_CdKeepsADirectory ==
    /\ [][/\ shell'.current_path # shell.current_path =>
                (shell'.result = "ok" /\ IsDirectory(find_node_by_path(shell'.current_path)))
          /\ shell'.result # "ok" => shell'.current_path = shell.current_path]_vars
    /\ [](/\ find_node_by_path(shell.current_path) # NoNode
          /\ IsDirectory(find_node_by_path(shell.current_path))
          /\ NamesADirectory(shell.current_path))

\* From the directory /a a cd to a file has returned an error, and the
\* current path is still /a.
C40_Witness ==
    /\ shell.current_path = <<"/", "a">>
    /\ shell.result = "not a directory"

=============================================================================
